---- MODULE Spec2Model ----
(***************************************************************************)
(* Model of the environmental signal aggregator of the EcoWatch dashboard  *)
(* (src/src/notification/scheduler.js, second half: the api module), of    *)
(* the daily digest scheduler (the first half of that file) and of the     *)
(* 'environment:summary' handler (src/electron/main.js).                   *)
(*                                                                         *)
(* Conventions.                                                            *)
(*  - A JavaScript value that may be null or undefined is an option: the   *)
(*    empty tuple None for null/undefined, the 1-tuple Some(v) otherwise.  *)
(*  - A JavaScript string that the code inspects character by character    *)
(*    (the city, the cells of the scraped tables) is a sequence of tokens; *)
(*    a string that the code only builds and passes on (error messages,    *)
(*    labels) is a TLA+ string.                                            *)
(*  - Coordinates are integers in units of 1e-4 degree.                    *)
(*  - An async function is split at its awaits on the network: one action  *)
(*    runs the code up to the request, one action runs the code from the   *)
(*    response to the next source.                                         *)
(***************************************************************************)
EXTENDS Integers, Sequences, FiniteSets, TLC

VARIABLES
    pc,          \* position of the collectEnvironmentalSummary call
    city,        \* the argument of the call (an option of a token sequence)
    apiKey,      \* process.env.OPENWEATHER_API_KEY (an option of a string)
    summary,     \* the local `summary` object (an option: None before the call)
    weatherData, \* the local `weatherData`
    weatherBody, \* the JSON body of the weather response, when it had one
    requests,    \* number of requests issued so far, per endpoint
    attempted,   \* the source functions called so far, in call order
    aqArgs,      \* the (latitude, longitude) passed to fetchAirQualityByCoords
    aqQuery,     \* the lat and lon of the air-quality request
    outcome,     \* the settled promise of the source function being awaited
    thrown,      \* per source: the message of the error its catch clause got
    bulletin,    \* the bulletin document received
    quakeFeed,   \* the seismic document received
    now,         \* Date.now() when the seismic rows were filtered
    arg,         \* the input of a source function checked on its own
    ret,         \* its result
    phase,       \* "off", or the position of the function or handler under check
    timerId,     \* the module variable `timerId` of the digest scheduler
    nextRunAt,   \* the module variable `nextRunAt`
    timers,      \* the timeouts pending in the event loop
    sends,       \* the digest runs awaiting sendDigestEmail()
    clock,       \* the wall clock, in minutes from a local midnight
    stopped,     \* stopDailyDigestScheduler ran and no start call followed
    lastRun,     \* how the last settled digest send ended
    calls,       \* the locals of two concurrent collectEnvironmentalSummary calls
    hasFetch     \* typeof fetch === "function" in this runtime

\* The runtime, the digest scheduler and the concurrent calls: untouched by
\* a single call.
hostVars == <<timerId, nextRunAt, timers, sends, clock, stopped, lastRun,
              calls, hasFetch>>

callVars == <<pc, city, apiKey, summary, weatherData, weatherBody, requests,
              attempted, aqArgs, aqQuery, outcome, thrown, bulletin, quakeFeed, now,
              hostVars>>

fnVars == <<arg, ret, phase>>

vars == <<pc, city, apiKey, summary, weatherData, weatherBody, requests,
          attempted, aqArgs, aqQuery, outcome, thrown, bulletin, quakeFeed, now, arg, ret,
          phase, hostVars>>

-----------------------------------------------------------------------------
(* Options *)

None == <<>>

Some(v) == <<v>>

IsSome(o) == o # <<>>

Get(o) == o[1]

\* JavaScript's  a ?? b  on options.
Coalesce(o, d) == IF IsSome(o) THEN Get(o) ELSE d

-----------------------------------------------------------------------------
(* Bounds of the model *)

\* Longest city argument, in characters, beside the two-word city.
MaxCityLen == 1

\* Largest number of rows in a seismic document checked on its own.
MaxQuakeRows == 3

\* Largest air-quality index checked, in whole units; the smallest is -1.
MaxAqi == 7

\* Largest number of rows in a bulletin checked on its own.
MaxAlertRows == 2

-----------------------------------------------------------------------------
(* Strings as token sequences *)

\* A token is a character (in the city and the weather description) or an
\* atomic chunk of text (in a table cell).  The chunks are chosen so that no
\* pattern the code searches for straddles two tokens.
LowerLetters == <<"a", "b", "d", "e", "h", "i", "l", "n", "r", "u", "v">>

UpperLetters == <<"A", "B", "D", "E", "H", "I", "L", "N", "R", "U", "V">>

\* The chunks that are not already in lower case, each with its lower case.
ChunkCase == << <<"Uttarakhand", "uttarakhand">>,
                <<"UTTARAKHAND", "uttarakhand">>,
                <<"Delhi", "delhi">>,
                <<"N/A", "n/a">>,
                <<"Nil", "nil">>,
                <<"No warning", "no warning">>,
                <<"Heavy rain", "heavy rain">>,
                <<"Heavy", "heavy">>,
                <<"Kumaon", "kumaon">>,
                <<"Parts", "parts">>,
                <<"Manila", "manila">>,
                <<"Flood alert", "flood alert">>,
                <<"Alerts service unavailable.", "alerts service unavailable.">>,
                <<"&NBSP;", "&nbsp;">>, <<"&Nbsp;", "&nbsp;">>,
                <<"&AMP;", "&amp;">>, <<"&Amp;", "&amp;">>,
                <<"&QUOT;", "&quot;">>, <<"&Quot;", "&quot;">>,
                <<"&LT;", "&lt;">>, <<"&Lt;", "&lt;">>,
                <<"&GT;", "&gt;">>, <<"&Gt;", "&gt;">>,
                <<"<SCRIPT>", "<script>">>, <<"</SCRIPT>", "</script>">>,
                <<"<STYLE>", "<style>">>, <<"</STYLE>", "</style>">>,
                <<"SCRIPT", "script">>, <<"/SCRIPT", "/script">>,
                <<"STYLE", "style">>, <<"/STYLE", "/style">> >>

LetterIndex(c, table) == CHOOSE i \in 1..Len(table) : table[i] = c

IsIn(c, table) == \E i \in 1..Len(table) : table[i] = c

\* String.prototype.toLowerCase on one character.
LowerOf(c) ==
    IF IsIn(c, UpperLetters) THEN LowerLetters[LetterIndex(c, UpperLetters)]
    ELSE IF \E i \in 1..Len(ChunkCase) : ChunkCase[i][1] = c
    THEN ChunkCase[CHOOSE i \in 1..Len(ChunkCase) : ChunkCase[i][1] = c][2]
    ELSE c

\* String.prototype.toUpperCase on one character.
UpperOf(c) == IF IsIn(c, LowerLetters)
              THEN UpperLetters[LetterIndex(c, LowerLetters)] ELSE c

toLowerCase(s) == [i \in 1..Len(s) |-> LowerOf(s[i])]

IsSpace(c) == c = " "

RECURSIVE trimStart(_)
trimStart(s) == IF s # <<>> /\ IsSpace(Head(s)) THEN trimStart(Tail(s)) ELSE s

RECURSIVE trimEnd(_)
trimEnd(s) == IF s # <<>> /\ IsSpace(s[Len(s)])
              THEN trimEnd(SubSeq(s, 1, Len(s) - 1)) ELSE s

\* String.prototype.trim
trim(s) == trimEnd(trimStart(s))

\* value.split(/\s+/).filter(Boolean): the maximal runs of non-space
\* characters, in order.
RECURSIVE splitWords(_, _)
splitWords(s, word) ==
    IF s = <<>> THEN (IF word = <<>> THEN <<>> ELSE <<word>>)
    ELSE IF IsSpace(Head(s))
         THEN (IF word = <<>> THEN <<>> ELSE <<word>>) \o splitWords(Tail(s), <<>>)
         ELSE splitWords(Tail(s), Append(word, Head(s)))

\* word.charAt(0).toUpperCase() + word.slice(1)
capitalize(word) == <<UpperOf(Head(word))>> \o Tail(word)

RECURSIVE joinWords(_)
joinWords(ws) == IF ws = <<>> THEN <<>>
                 ELSE IF Len(ws) = 1 THEN ws[1]
                 ELSE ws[1] \o <<" ">> \o joinWords(Tail(ws))

toTitleCase(value) ==
    LET words == splitWords(toLowerCase(value), <<>>)
    IN  joinWords([i \in 1..Len(words) |-> capitalize(words[i])])

DefaultCity == <<"D", "e", "h", "r", "a", "d", "u", "n">>

\* Mutant of trimmedOrDefault: an empty text is not replaced.
trimmedOrDefault_NoDefault(c) == trim(Coalesce(c, <<>>))

\* (city || "").trim() || "Dehradun"
trimmedOrDefault(c) ==
    LET t == trim(Coalesce(c, <<>>))
    IN  IF t = <<>> THEN DefaultCity ELSE t

-----------------------------------------------------------------------------
(* Numbers.  A JSON number is an integer count of hundredths: 21.6 is 2160. *)

Abs(n) == IF n < 0 THEN -n ELSE n

\* Number(x.toFixed(digits)) for digits 0 and 1: the nearest multiple of
\* 10^-digits, an exact tie going away from zero.  (A tie at one decimal is
\* exact in binary only for the hundredths 25 and 75; the inputs of the model
\* carry no other tie.)
toFixed(n, digits) ==
    LET unit == IF digits = 0 THEN 100 ELSE 10
        q    == ((2 * Abs(n) + unit) \div (2 * unit)) * unit
    IN  IF n < 0 THEN -q ELSE q

\* Mutant of formatNumber: the digits after the kept ones are cut off.
formatNumber_Truncate(value, digits) ==
    IF IsSome(value)
    THEN LET unit == IF digits = 0 THEN 100 ELSE 10
             q    == (Abs(Get(value)) \div unit) * unit
         IN  Some(IF Get(value) < 0 THEN -q ELSE q)
    ELSE None

\* formatNumber(value, {digits}): null for a null or undefined value; JSON
\* carries no NaN or infinity, so a present number is finite.
formatNumber(value, digits) ==
    IF IsSome(value) THEN Some(toFixed(Get(value), digits)) ELSE None

-----------------------------------------------------------------------------
(* Results of the source functions: a returned value or a thrown error *)

Returned(v) == [ok |-> TRUE, value |-> Some(v), message |-> ""]

Thrown(msg) == [ok |-> FALSE, value |-> None, message |-> msg]

\* In 1e-4 degree.
DEFAULT_COORDINATES == [lat |-> 303165, lon |-> 780322]

DefaultLat == DEFAULT_COORDINATES.lat

DefaultLon == DEFAULT_COORDINATES.lon

ConfigMessage == "OPENWEATHER_API_KEY is not configured"

\* The test  !apiKey : an unset variable and the empty string both fail it.
HasKey(k) == IsSome(k) /\ Get(k) # ""

\* What the runtime reports for a rejected fetch, a body that is not JSON and
\* a property read on null.
FetchFailedMessage == "fetch failed"

\* The message of the SyntaxError of response.json() on the body "<html>":
\* the wording of V8 from version 10.5 on, and the wording before.
JsonSyntaxMessage == "Unexpected token '<', \"<html>\" is not valid JSON"

JsonSyntaxMessageBefore == "Unexpected token < in JSON at position 0"

JsonSyntaxMessages == {JsonSyntaxMessage, JsonSyntaxMessageBefore}

NoFetchMessage ==
    "Global fetch API is not available in this runtime. Please use Node.js 18 or later."

\* getFetch(), where f tells whether the runtime has a global fetch.
getFetch(f) == IF f THEN Returned(TRUE) ELSE Thrown(NoFetchMessage)

NullReadMessage(prop) ==
    "Cannot read properties of null (reading '" \o prop \o "')"

-----------------------------------------------------------------------------
(* Weather source *)

Unavailable == <<"U", "n", "a", "v", "a", "i", "l", "a", "b", "l", "e">>

IndiaCode == "IN"

\* Array.isArray(data.weather) && data.weather.length
\*   ? data.weather[0].description || "" : ""
weatherDescription(data) ==
    IF IsSome(data.weather) /\ Len(Get(data.weather)) > 0
    THEN Coalesce(Get(data.weather)[1].description, <<>>)
    ELSE <<>>

\* Mutant of rainfallOf:  ||  in place of  ?? , so that a 1-hour measurement
\* of 0 gives way to the 3-hour measurement.
rainfallOf_Or(data) ==
    IF IsSome(data.rain)
    THEN (IF IsSome(Get(data.rain).h1) /\ Get(Get(data.rain).h1) # 0
          THEN Get(Get(data.rain).h1)
          ELSE Coalesce(Get(data.rain).h3, 0))
    ELSE 0

\* data.rain ? data.rain["1h"] ?? data.rain["3h"] ?? 0 : 0
rainfallOf(data) ==
    IF IsSome(data.rain)
    THEN Coalesce(Get(data.rain).h1, Coalesce(Get(data.rain).h3, 0))
    ELSE 0

\* Mutant of latitudeOf:  ||  in place of  ?? , so that latitude 0 counts as
\* missing.
latitudeOf_Or(data) ==
    IF IsSome(data.coord) /\ IsSome(Get(data.coord).lat)
       /\ Get(Get(data.coord).lat) # 0
    THEN Get(Get(data.coord).lat) ELSE DefaultLat

\* data.coord?.lat ?? DEFAULT_COORDINATES.lat
latitudeOf(data) ==
    IF IsSome(data.coord) THEN Coalesce(Get(data.coord).lat, DefaultLat)
    ELSE DefaultLat

\* data.coord?.lon ?? DEFAULT_COORDINATES.lon
longitudeOf(data) ==
    IF IsSome(data.coord) THEN Coalesce(Get(data.coord).lon, DefaultLon)
    ELSE DefaultLon

\* The record built at the end of fetchWeatherByCity.
weatherRecord(trimmedCity, data) ==
    [ location    |-> [ city      |-> toTitleCase(trimmedCity),
                        country   |-> IF IsSome(data.sys)
                                         /\ IsSome(Get(data.sys).country)
                                         /\ Get(Get(data.sys).country) # ""
                                      THEN Get(Get(data.sys).country)
                                      ELSE IndiaCode,
                        latitude  |-> latitudeOf(data),
                        longitude |-> longitudeOf(data) ],
      temperature |-> formatNumber(IF IsSome(data.main)
                                   THEN Get(data.main).temp ELSE None, 0),
      condition   |-> toTitleCase(IF weatherDescription(data) = <<>>
                                  THEN Unavailable
                                  ELSE weatherDescription(data)),
      humidity    |-> formatNumber(IF IsSome(data.main)
                                   THEN Get(data.main).humidity ELSE None, 0),
      rainfall    |-> Coalesce(formatNumber(Some(rainfallOf(data)), 1), 0),
      source      |-> "https://api.openweathermap.org/data/2.5/weather" ]

\* Mutant of weatherPrecheck: the credential is not checked.
weatherPrecheck_NoCheck(key, f) == getFetch(f)

\* fetchWeatherByCity before its request: the credential check, then
\* getFetch().
weatherPrecheck(key, f) == IF HasKey(key) THEN getFetch(f)
                           ELSE Thrown(ConfigMessage)

\* fetchWeatherByCity from the response on.
fetchWeatherByCity(cityArg, resp) ==
    IF resp.kind = "reject" THEN Thrown(FetchFailedMessage)
    ELSE IF ~resp.ok
    THEN Thrown("Weather API request failed with status "
                \o ToString(resp.status))
    ELSE IF resp.body.kind = "invalid" THEN Thrown(resp.body.message)
    ELSE IF ~IsSome(resp.body.data) THEN Thrown(NullReadMessage("weather"))
    ELSE Returned(weatherRecord(trimmedOrDefault(Some(cityArg)),
                                Get(resp.body.data)))

-----------------------------------------------------------------------------
(* Air-quality source *)

\* A JSON scalar: a number (in hundredths) or a string.
NumV(n) == [t |-> "num", n |-> n, s |-> ""]

StrV(s) == [t |-> "str", n |-> 0, s |-> s]

\* The own keys of `categories` and their labels.
CategoryKeys == <<"1", "2", "3", "4", "5">>

CategoryLabels == <<"Good", "Fair", "Moderate", "Poor", "Very Poor">>

\* Names every object inherits from Object.prototype: categories[name] is
\* then a function or an object, not a label.
InheritedKeys == {"constructor", "toString", "valueOf", "hasOwnProperty",
                  "__proto__"}

\* String(value), the property key that categories[value] looks up.
propertyKey(value) ==
    IF ~IsSome(value) THEN "undefined"
    ELSE IF Get(value).t = "str" THEN Get(value).s
    ELSE IF Get(value).n % 100 = 0 THEN ToString(Get(value).n \div 100)
    ELSE "fraction"

\* Mutant of mapAqiCategory: the labels are looked up in an array, which
\* counts from 0.
mapAqiCategory_Array(value) ==
    LET key == propertyKey(value)
    IN  IF \E i \in 1..5 : ToString(i - 1) = key
        THEN [isString |-> TRUE,
              text |-> CategoryLabels[CHOOSE i \in 1..5 : ToString(i - 1) = key]]
        ELSE [isString |-> TRUE, text |-> "Unavailable"]

\* categories[value] || "Unavailable".  isString is FALSE when the lookup
\* yields an inherited member instead of a label.
mapAqiCategory(value) ==
    LET key == propertyKey(value)
    IN  IF \E i \in 1..5 : CategoryKeys[i] = key
        THEN [isString |-> TRUE,
              text |-> CategoryLabels[CHOOSE i \in 1..5 : CategoryKeys[i] = key]]
        ELSE IF key \in InheritedKeys
        THEN [isString |-> FALSE, text |-> key]
        ELSE [isString |-> TRUE, text |-> "Unavailable"]

\* Number(v) for a JSON scalar or an absent value: None is NaN.
toNumber(value) ==
    IF ~IsSome(value) THEN None
    ELSE IF Get(value).t = "num" THEN Some(Get(value).n)
    ELSE IF Get(value).s = "" THEN Some(0)
    ELSE IF \E i \in 0..9 : ToString(i) = Get(value).s
    THEN Some(100 * (CHOOSE i \in 0..9 : ToString(i) = Get(value).s))
    ELSE None

\* Number(reading.main?.aqi) || null
aqiIndex(value) ==
    IF IsSome(toNumber(value)) /\ Get(toNumber(value)) # 0
    THEN toNumber(value) ELSE None

\* reading.main?.aqi
aqiOf(reading) == IF IsSome(reading.main) THEN Get(reading.main).aqi ELSE None

airQualityRecord(reading) ==
    [ index      |-> aqiIndex(aqiOf(reading)),
      category   |-> mapAqiCategory(aqiOf(reading)),
      components |-> Coalesce(reading.components, {}),
      source     |-> "https://api.openweathermap.org/data/2.5/air_pollution" ]

\* fetchAirQualityByCoords before its request: the credential check, then
\* getFetch().
airPrecheck(key, f) == IF HasKey(key) THEN getFetch(f)
                       ELSE Thrown(ConfigMessage)

\* Number(latitude ?? DEFAULT_COORDINATES.lat), Number(longitude ?? ...lon)
airQuery(latitude, longitude) ==
    [lat |-> Coalesce(latitude, DefaultLat), lon |-> Coalesce(longitude, DefaultLon)]

\* fetchAirQualityByCoords from the response on.
fetchAirQualityByCoords(resp) ==
    IF resp.kind = "reject" THEN Thrown(FetchFailedMessage)
    ELSE IF ~resp.ok
    THEN Thrown("Air quality API request failed with status "
                \o ToString(resp.status))
    ELSE IF resp.body.kind = "invalid" THEN Thrown(resp.body.message)
    ELSE IF ~IsSome(resp.body.data) THEN Thrown(NullReadMessage("list"))
    ELSE LET list == Get(resp.body.data).list
         IN  IF ~IsSome(list) \/ Len(Get(list)) = 0 \/ ~IsSome(Get(list)[1])
             THEN Thrown("Air quality data is missing in API response")
             ELSE Returned(airQualityRecord(Get(Get(list)[1])))

-----------------------------------------------------------------------------
(* Text normalizer and table extractor.                                    *)
(* A document is the sequence of its <tr> rows, a row the sequence of its  *)
(* <td>/<th> cells, a raw cell the sequence of the tokens between the cell *)
(* tags: chunks of text, white space, entities and inline tags.            *)

\* The entities decodeHtmlEntities replaces, with their replacements, in the
\* order of the code.
Entities == << <<"&nbsp;", " ">>, <<"&amp;", "&">>, <<"&quot;", "\"">>,
               <<"&#39;", "'">>, <<"&lt;", "<">>, <<"&gt;", ">">>,
               <<"&#8211;", "-">>, <<"&#8212;", "-">>,
               <<"&#176;", "°">>, <<"&#37;", "%">> >>

\* The patterns carry the i flag: an entity matches in any case.
EntitySpellings ==
    {Entities[i][1] : i \in 1..Len(Entities)}
    \cup {ChunkCase[k][1] : k \in {m \in 1..Len(ChunkCase) :
              \E i \in 1..Len(Entities) : Entities[i][1] = ChunkCase[m][2]}}

decodeToken(t) ==
    IF t \in EntitySpellings
    THEN LET entity == LowerOf(t)
         IN  Entities[CHOOSE i \in 1..Len(Entities) :
                          Entities[i][1] = entity][2]
    ELSE t

decodeHtmlEntities(value) == [i \in 1..Len(value) |-> decodeToken(value[i])]

InlineTags == {"<b>", "</b>", "<br/>", "<span>", "</span>"}

\* The block tags, in lower and in upper case.
BlockTags ==
    {"<script>", "</script>", "<style>", "</style>",
     "<SCRIPT>", "</SCRIPT>", "<STYLE>", "</STYLE>"}

\* The block tag t is the tag named in lower case.
IsBlockTag(t, tag) == t \in BlockTags /\ LowerOf(t) = tag

\* The tags of the model: the inline tags, the block tags and the cell tags
\* that the cell pattern of extractTableRows matches around a cell.
IsTag(t) ==
    \/ t \in InlineTags
    \/ t \in BlockTags
    \/ t \in {"<td>", "</td>", "<th>", "</th>"}

\* The tokens that hold a ">".
ClosesTag(t) == t = ">" \/ IsTag(t)

\* /<script[^>]*>/i and /<style[^>]*>/i at the head of s: the position of
\* the token that ends the opening tag, 0 when no opening tag starts here.
\* The tag is one token, or a "<" (decoded from &lt;), a chunk that begins
\* with the name, and whatever follows up to the first token that holds a
\* ">": the text after the name belongs to [^>]*.
openEnd(s, open) ==
    LET names == IF open = "<script>" THEN {"script", "SCRIPT", "scriptb"}
                 ELSE {"style", "STYLE", "styleb"}
    IN  IF IsBlockTag(s[1], open) THEN 1
        ELSE IF /\ s[1] = "<"
                /\ Len(s) >= 3
                /\ s[2] \in names
                /\ \E j \in 3..Len(s) : ClosesTag(s[j])
        THEN CHOOSE j \in 3..Len(s) :
                 /\ ClosesTag(s[j])
                 /\ \A m \in 3..(j - 1) : ~ClosesTag(s[m])
        ELSE 0

\* /<\/script>/i and /<\/style>/i at position k of s: the position of the
\* token that ends the closing tag, 0 when no closing tag starts at k.
closeEnd(s, k, close) ==
    LET names == IF close = "</script>" THEN {"/script", "/SCRIPT"}
                 ELSE {"/style", "/STYLE"}
    IN  IF IsBlockTag(s[k], close) THEN k
        ELSE IF /\ s[k] = "<"
                /\ k + 2 <= Len(s)
                /\ s[k + 1] \in names
                /\ s[k + 2] = ">"
        THEN k + 2
        ELSE 0

\* One of the first two replacements of stripHtml: every block from an
\* opening tag to the first closing tag after it goes, content included; an
\* opening tag that is never closed is left for the tag pattern.  The
\* patterns carry the i flag and run on the decoded text.
RECURSIVE dropBlocks(_, _, _)
dropBlocks(s, open, close) ==
    IF s = <<>> THEN <<>>
    ELSE LET o == openEnd(s, open)
         IN  IF /\ o > 0
                /\ \E k \in (o + 1)..Len(s) : closeEnd(s, k, close) > 0
             THEN LET k == CHOOSE n \in (o + 1)..Len(s) :
                               /\ closeEnd(s, n, close) > 0
                               /\ \A m \in (o + 1)..(n - 1) :
                                      closeEnd(s, m, close) = 0
                  IN  <<" ">> \o dropBlocks(
                          SubSeq(s, closeEnd(s, k, close) + 1, Len(s)),
                          open, close)
             ELSE <<Head(s)>> \o dropBlocks(Tail(s), open, close)

\* .replace(/<[^>]+>/g, " "): a tag goes, and so does the text from a "<" to
\* the first ">" after it when something stands between the two.
RECURSIVE dropTags(_)
dropTags(s) ==
    IF s = <<>> THEN <<>>
    ELSE IF IsTag(Head(s)) THEN <<" ">> \o dropTags(Tail(s))
    ELSE IF Head(s) = "<" /\ \E j \in 2..Len(s) : ClosesTag(s[j])
    THEN LET j == CHOOSE k \in 2..Len(s) :
                     /\ ClosesTag(s[k])
                     /\ \A m \in 2..(k - 1) : ~ClosesTag(s[m])
         IN  IF s[j] = ">" /\ j = 2
             THEN <<"<">> \o dropTags(Tail(s))
             ELSE <<" ">> \o dropTags(SubSeq(s, j + 1, Len(s)))
    ELSE <<Head(s)>> \o dropTags(Tail(s))

IsBlank(t) == t \in {" ", "\n", "\t"}

\* .replace(/\s+/g, " ")
RECURSIVE collapseSpace(_)
collapseSpace(s) ==
    IF s = <<>> THEN <<>>
    ELSE IF IsBlank(Head(s))
    THEN (IF Len(s) > 1 /\ IsBlank(s[2]) THEN collapseSpace(Tail(s))
          ELSE <<" ">> \o collapseSpace(Tail(s)))
    ELSE <<Head(s)>> \o collapseSpace(Tail(s))

stripHtml(input) ==
    trim(collapseSpace(dropTags(
        dropBlocks(dropBlocks(decodeHtmlEntities(input),
                              "<script>", "</script>"),
                   "<style>", "</style>"))))

\* cells.push(stripHtml(cell)): the match of the cell pattern goes through
\* stripHtml whole, the cell tags around the content included.
cellText(cell) == stripHtml(<<"<td>">> \o cell \o <<"</td>">>)

\* extractTableRows: the cells of each row through stripHtml, in document
\* order; a row without cells is omitted.
RECURSIVE extractTableRows(_)
extractTableRows(html) ==
    IF html = <<>> THEN <<>>
    ELSE LET cells == [i \in 1..Len(Head(html)) |-> cellText(Head(html)[i])]
         IN  (IF Len(cells) > 0 THEN <<cells>> ELSE <<>>)
             \o extractTableRows(Tail(html))

\* The lower-case chunks that contain the text "uttarakhand".
RegionChunks == {"uttarakhand"}

\* cell.toLowerCase().includes("uttarakhand")
includesRegion(cell) ==
    LET lower == toLowerCase(cell)
    IN  \E i \in 1..Len(lower) : lower[i] \in RegionChunks

-----------------------------------------------------------------------------
(* Warning-bulletin source *)

NoWarnings == [summary |-> <<"No major warnings today.">>, notices |-> <<>>]

AlertsUnavailable ==
    [summary |-> <<"Alerts service unavailable.">>, notices |-> <<>>]

\* The lower-case chunks in which /n\/a|nil|no warning/ finds a match; in
\* "manila" it finds "nil".
DiscardChunks == {"n/a", "nil", "no warning", "manila"}

\* Mutant of matchesDiscard: the pattern without its i flag.
matchesDiscard_CaseSensitive(entry) ==
    \E i \in 1..Len(entry) : entry[i] \in DiscardChunks

\* /n\/a|nil|no warning/i.test(entry)
matchesDiscard(entry) ==
    LET lower == toLowerCase(entry)
    IN  \E i \in 1..Len(lower) : lower[i] \in DiscardChunks

\* Mutant of findTargetRow: the last row of the region instead of the first.
RECURSIVE findTargetRow_Last(_)
findTargetRow_Last(rows) ==
    IF rows = <<>> THEN None
    ELSE IF \E c \in 1..Len(rows[Len(rows)]) : includesRegion(rows[Len(rows)][c])
    THEN Some(rows[Len(rows)])
    ELSE findTargetRow_Last(SubSeq(rows, 1, Len(rows) - 1))

\* rows.find(row => row.some(cell => ...includes("uttarakhand")))
RECURSIVE findTargetRow(_)
findTargetRow(rows) ==
    IF rows = <<>> THEN None
    ELSE IF \E c \in 1..Len(Head(rows)) : includesRegion(Head(rows)[c])
    THEN Some(Head(rows))
    ELSE findTargetRow(Tail(rows))

RECURSIVE filterNotices(_)
filterNotices(entries) ==
    IF entries = <<>> THEN <<>>
    ELSE LET entry == trim(collapseSpace(Head(entries)))
         IN  (IF entry # <<>> /\ ~matchesDiscard(entry) THEN <<entry>> ELSE <<>>)
             \o filterNotices(Tail(entries))

\* Mutant of alertsFromHtml: a bulletin without a row of the region gives
\* the substitute of the failure case.
alertsFromHtml_WrongSentinel(html) ==
    LET targetRow == findTargetRow(extractTableRows(html))
    IN  IF ~IsSome(targetRow) THEN AlertsUnavailable
        ELSE LET notices == filterNotices(Tail(Get(targetRow)))
             IN  [summary |-> IF Len(notices) > 0 THEN notices[1]
                              ELSE NoWarnings.summary,
                  notices |-> notices]

\* fetchUttarakhandAlerts from the text of the response on.
alertsFromHtml(html) ==
    LET targetRow == findTargetRow(extractTableRows(html))
    IN  IF ~IsSome(targetRow) THEN NoWarnings
        ELSE LET notices == filterNotices(Tail(Get(targetRow)))
             IN  [summary |-> IF Len(notices) > 0 THEN notices[1]
                              ELSE NoWarnings.summary,
                  notices |-> notices]

\* Mutant of fetchUttarakhandAlerts: a bulletin without a row of the region
\* is an error.
fetchUttarakhandAlerts_NoRowThrows(resp) ==
    IF resp.kind = "reject" THEN Thrown(FetchFailedMessage)
    ELSE IF ~resp.ok
    THEN Thrown("IMD alert request failed with status "
                \o ToString(resp.status))
    ELSE IF ~IsSome(findTargetRow(extractTableRows(resp.body)))
    THEN Thrown("No row for the region")
    ELSE Returned(alertsFromHtml(resp.body))

\* fetchUttarakhandAlerts before its request: getFetch().
alertsPrecheck(f) == getFetch(f)

\* fetchUttarakhandAlerts from the response on.
fetchUttarakhandAlerts(resp) ==
    IF resp.kind = "reject" THEN Thrown(FetchFailedMessage)
    ELSE IF ~resp.ok
    THEN Thrown("IMD alert request failed with status "
                \o ToString(resp.status))
    ELSE Returned(alertsFromHtml(resp.body))

-----------------------------------------------------------------------------
(* Temporal parser.  Instants are whole hours of local time counted from   *)
(* 2024-03-01T00:00; the feeds of the model date their rows in March 2024. *)

Days == 1..31

Hours == 0..23

Pad2(n) == IF n < 10 THEN "0" \o ToString(n) ELSE ToString(n)

\* The date and time texts of the feeds, by day of March 2024 and by hour.
DmySlash == [d \in Days |-> Pad2(d) \o "/03/2024"]

DmyDash == [d \in Days |-> Pad2(d) \o "-03-2024"]

YmdSlash == [d \in Days |-> "2024/03/" \o Pad2(d)]

YmdDash == [d \in Days |-> "2024-03-" \o Pad2(d)]

HourMinute == [h \in Hours |-> Pad2(h) \o ":00"]

\* .replace(/\//g, "-") on one token.
slashToDash(t) ==
    IF \E d \in Days : t = DmySlash[d]
    THEN DmyDash[CHOOSE d \in Days : t = DmySlash[d]]
    ELSE IF \E d \in Days : t = YmdSlash[d]
    THEN YmdDash[CHOOSE d \in Days : t = YmdSlash[d]]
    ELSE t

\* .replace(/(\d{2})-(\d{2})-(\d{4})/g, "$3-$2-$1") on one token.
dayFirstToIso(t) ==
    IF \E d \in Days : t = DmyDash[d]
    THEN YmdDash[CHOOSE d \in Days : t = DmyDash[d]]
    ELSE t

normaliseDate(s) == [i \in 1..Len(s) |-> dayFirstToIso(slashToDash(s[i]))]

\* new Date(text): a year-month-day date, one space and an hour:minute time
\* give that instant of local time; the other texts of the model (an empty
\* text, a text with a word that is no date or time) give an invalid date.
parseDateText(s) ==
    IF /\ Len(s) = 3
       /\ \E d \in Days : s[1] = YmdDash[d]
       /\ s[2] = " "
       /\ \E h \in Hours : s[3] = HourMinute[h]
    THEN Some((CHOOSE d \in Days : s[1] = YmdDash[d]) * 24 - 24
              + (CHOOSE h \in Hours : s[3] = HourMinute[h]))
    ELSE None

parseEarthquakeDate(dateStr, timeStr) ==
    LET isoCandidate == trim(stripHtml(dateStr) \o <<" ">> \o stripHtml(timeStr))
    IN  parseDateText(normaliseDate(isoCandidate))

-----------------------------------------------------------------------------
(* Seismic-event source *)

\* The chunks that Number() reads as a number, with their values in
\* hundredths; every other non-empty text of the model reads as NaN.
NumericChunks == << <<"0", 0>>, <<"3", 300>>, <<"4.5", 450>>, <<"5.25", 525>>,
                    <<"10", 1000>>, <<"30.1", 3010>> >>

\* Number(cell): None is NaN.
cellNumber(cell) ==
    IF cell = <<>> THEN Some(0)
    ELSE IF Len(cell) = 1
            /\ \E i \in 1..Len(NumericChunks) : NumericChunks[i][1] = cell[1]
    THEN Some(NumericChunks[CHOOSE i \in 1..Len(NumericChunks) :
                                NumericChunks[i][1] = cell[1]][2])
    ELSE None

IsTruthyNumber(n) == IsSome(n) /\ Get(n) # 0

\* Number(cells[4]) || Number(cells[3]), then
\* magnitude ? Number(magnitude.toFixed(1)) : null
magnitudeOf(cells) ==
    LET magnitude == IF IsTruthyNumber(cellNumber(cells[5]))
                     THEN cellNumber(cells[5]) ELSE cellNumber(cells[4])
    IN  IF IsTruthyNumber(magnitude) THEN Some(toFixed(Get(magnitude), 1))
        ELSE None

\* The callback of rows.map: None for a row of another region.
quakeOfRow(cells) ==
    LET locationCell == cells[Len(cells)]
    IN  IF ~includesRegion(locationCell) THEN None
        ELSE Some([ location  |-> stripHtml(locationCell),
                    magnitude |-> magnitudeOf(cells),
                    timestamp |-> parseEarthquakeDate(cells[1], cells[2]) ])

\* timestamp?.getTime() || 0, in hours since 1970-01-01.
sortKey(item) ==
    IF IsSome(item.timestamp) THEN Get(item.timestamp) + 19783 * 24 ELSE 0

\* Array.prototype.sort with (a, b) => key(b) - key(a): descending by key,
\* items of equal key in their original order.
RECURSIVE insertByKey(_, _)
insertByKey(sorted, item) ==
    IF sorted = <<>> THEN <<item>>
    ELSE IF sortKey(Head(sorted)) >= sortKey(item)
    THEN <<Head(sorted)>> \o insertByKey(Tail(sorted), item)
    ELSE <<item>> \o sorted

RECURSIVE sortDescending(_)
sortDescending(items) ==
    IF items = <<>> THEN <<>>
    ELSE insertByKey(sortDescending(SubSeq(items, 1, Len(items) - 1)),
                     items[Len(items)])

RECURSIVE quakeMatches(_)
quakeMatches(rows) ==
    IF rows = <<>> THEN <<>>
    ELSE LET match == IF Len(Head(rows)) >= 6 THEN quakeOfRow(Head(rows))
                      ELSE None
         IN  match \o quakeMatches(Tail(rows))

\* Mutant of IsRecent: the window is two days long.
IsRecent_TwoDays(item, cutoff) ==
    IsSome(item.timestamp) /\ Get(item.timestamp) >= cutoff - 24

\* item.timestamp && item.timestamp.getTime() >= cutoff
IsRecent(item, cutoff) == IsSome(item.timestamp) /\ Get(item.timestamp) >= cutoff

RECURSIVE keepRecent(_, _)
keepRecent(items, cutoff) ==
    IF items = <<>> THEN <<>>
    ELSE (IF IsRecent(Head(items), cutoff) THEN <<Head(items)>> ELSE <<>>)
         \o keepRecent(Tail(items), cutoff)

\* fetchUttarakhandEarthquakes from the text of the response on; instant is
\* Date.now() at the filter.
quakesFromHtml(html, instant) ==
    keepRecent(sortDescending(quakeMatches(extractTableRows(html))),
               instant - 24)

\* fetchUttarakhandEarthquakes before its request: getFetch().
quakesPrecheck(f) == getFetch(f)

\* fetchUttarakhandEarthquakes from the response on.
fetchUttarakhandEarthquakes(resp, instant) ==
    IF resp.kind = "reject" THEN Thrown(FetchFailedMessage)
    ELSE IF ~resp.ok
    THEN Thrown("Earthquake feed request failed with status "
                \o ToString(resp.status))
    ELSE Returned(quakesFromHtml(resp.body, instant))

-----------------------------------------------------------------------------
(* The responses the four endpoints may give *)

Rejected == [kind |-> "reject", ok |-> FALSE, status |-> 0]

Status(code) == [kind |-> "http", ok |-> FALSE, status |-> code]

\* A response with a success status and the given body.
Ok(body) == [kind |-> "http", ok |-> TRUE, status |-> 200, body |-> body]

\* The body "<html>", with the message response.json() rejects with.
InvalidJson(msg) == [kind |-> "invalid", data |-> None, message |-> msg]

Json(data) == [kind |-> "json", data |-> data, message |-> ""]

Coord(lat, lon) == Some([lat |-> lat, lon |-> lon])

\* A weather body with the given coordinate, rain and main blocks.
WeatherData(coord, rain, main) ==
    [ weather |-> Some(<<[description |-> Some(<<"r", "a", "i", "n">>)]>>),
      rain    |-> rain,
      coord   |-> coord,
      main    |-> main,
      sys     |-> Some([country |-> Some("IN")]) ]

Main(temp, humidity) == Some([temp |-> temp, humidity |-> humidity])

Rain(h1, h3) == Some([h1 |-> h1, h3 |-> h3])

\* 21.6 degrees, 54.2 per cent, no rain block.
WeatherBody(coord) == WeatherData(coord, None, Main(Some(2160), Some(5420)))

\* The coordinate blocks of the weather bodies: none, one without values,
\* the equator at Greenwich, only a latitude, only a longitude, New Delhi.
CoordBlocks ==
    { None, Coord(None, None), Coord(Some(0), Some(0)),
      Coord(Some(286139), None), Coord(None, Some(772090)),
      Coord(Some(286139), Some(772090)) }

WeatherResponses ==
    {Rejected, Status(404), Ok(Json(None))}
    \cup {Ok(InvalidJson(m)) : m \in JsonSyntaxMessages}
    \cup {Ok(Json(Some(WeatherBody(c)))) : c \in CoordBlocks}

Reading(aqi) ==
    Some([main |-> Some([aqi |-> aqi]), components |-> Some({<<"pm2_5", 1250>>})])

AirBody(list) == Some([list |-> list])

AirResponses ==
    {Ok(InvalidJson(m)) : m \in JsonSyntaxMessages}
    \cup
    {Rejected, Status(500), Ok(Json(None)),
     Ok(Json(AirBody(None))), Ok(Json(AirBody(Some(<<>>)))),
     Ok(Json(AirBody(Some(<<None>>))))}
    \cup {Ok(Json(AirBody(Some(<<Reading(a)>>)))) :
              a \in {None, Some(NumV(0)), Some(NumV(200)), Some(NumV(600))}}

\* Bulletins: no table, a table without the region, the region in upper
\* case with an "N/A" and a notice, the region with the text of the
\* substitute bulletin as its notice.
\* A bulletin with one row of the region, in upper case, and two notices of
\* which the first is "N/A".
ScenarioBulletin ==
    << <<<<"Delhi">>, <<"Nil">>>>,
       <<<<"<b>", "UTTARAKHAND", "</b>">>, <<"N/A">>,
         <<"Heavy", "&nbsp;", " ", "rain">>>> >>

Bulletins ==
    { <<>>,
      << <<<<"Delhi">>, <<"Heavy rain">>>> >>,
      ScenarioBulletin,
      << <<<<"Uttarakhand">>, <<"Alerts service unavailable.">>>> >> }

AlertResponses == {Rejected, Status(503)} \cup {Ok(b) : b \in Bulletins}

\* A row of the seismic table: date, time, latitude, depth or magnitude,
\* magnitude, location.
QuakeRow(date, time, fourth, fifth, place) ==
    <<date, time, <<"30.1">>, fourth, fifth, place>>

Place(region) == <<"12km", " ", "N", " ", "of", " ", region>>

\* Seismic documents dated around 15 March 2024: no table; the feed of the
\* scenario; one recent row of another region; an old, a recent and a future
\* row of the region in document order, then a row without a date.
\* A feed with two events of the region: 15 March 06:00 and 14 March 03:00,
\* which are 3 and 30 hours before 15 March 09:00.
ScenarioFeed ==
    << QuakeRow(<<DmySlash[15]>>, <<HourMinute[6]>>, <<"10">>, <<"4.5">>,
                Place("Uttarakhand")),
       QuakeRow(<<DmyDash[14]>>, <<HourMinute[3]>>, <<"10">>, <<"3">>,
                Place("Uttarakhand")) >>

QuakeFeeds ==
    { <<>>,
      ScenarioFeed,
      << QuakeRow(<<DmySlash[15]>>, <<HourMinute[6]>>, <<"10">>, <<"4.5">>,
                  Place("Delhi")) >>,
      << QuakeRow(<<DmySlash[13]>>, <<HourMinute[6]>>, <<"10">>, <<"3">>,
                  Place("Uttarakhand")),
         QuakeRow(<<YmdDash[15]>>, <<HourMinute[3]>>, <<"5.25">>, <<"0">>,
                  Place("UTTARAKHAND")),
         QuakeRow(<<DmyDash[15]>>, <<HourMinute[20]>>, <<"10">>, <<"4.5">>,
                  Place("Uttarakhand")),
         QuakeRow(<<"--">>, <<"--">>, <<"10">>, <<"4.5">>,
                  Place("Uttarakhand")) >> }

QuakeResponses == {Rejected, Status(500)} \cup {Ok(f) : f \in QuakeFeeds}

\* Date.now() at the seismic filter: 15 March 2024 at 09:00 and at 21:00.
Instants == {14 * 24 + 9, 14 * 24 + 21}

RECURSIVE SeqsUpTo(_, _)
SeqsUpTo(S, n) ==
    IF n = 0 THEN {<<>>}
    ELSE LET shorter == SeqsUpTo(S, n - 1)
         IN  shorter \cup {Append(q, x) : q \in shorter, x \in S}

\* " deHRA  dUN ": two words in mixed case, two spaces between them and a
\* space at either end.
TwoWordCity ==
    <<" ", "d", "e", "H", "R", "A", " ", " ", "d", "U", "N", " ">>

\* The city arguments: absent, a text of spaces and letters, or the two
\* words.
Cities ==
    {None, Some(TwoWordCity)}
    \cup {Some(c) : c \in SeqsUpTo({" ", "a", "B"}, MaxCityLen)}

\* The credential: unset, empty, set.
ApiKeys == {None, Some(""), Some("k3y")}

-----------------------------------------------------------------------------
(* The aggregator: collectEnvironmentalSummary *)

NewSummary(c) ==
    [ city        |-> toTitleCase(trimmedOrDefault(c)),
      weather     |-> None,
      airQuality  |-> None,
      alerts      |-> None,
      earthquakes |-> <<>>,
      errors      |-> <<>> ]

\* Each try statement, given the summary and the outcome r of the source
\* function: the summary after it, and whether the error leaves the call.
afterWeather(s, r) ==
    IF r.ok THEN [summary |-> [s EXCEPT !.weather = r.value], escaped |-> FALSE]
    ELSE [summary |-> [s EXCEPT !.errors = Append(@, "Weather: " \o r.message)],
          escaped |-> FALSE]

\* Mutant of afterAir: a failure also fills the field with a placeholder.
afterAir_Substitute(s, r) ==
    IF r.ok THEN [summary |-> [s EXCEPT !.airQuality = r.value],
                  escaped |-> FALSE]
    ELSE [summary |-> [s EXCEPT !.errors =
                                   Append(@, "Air Quality: " \o r.message),
                                !.airQuality = Some(airQualityRecord(
                                    [main |-> None, components |-> None]))],
          escaped |-> FALSE]

afterAir(s, r) ==
    IF r.ok THEN [summary |-> [s EXCEPT !.airQuality = r.value],
                  escaped |-> FALSE]
    ELSE [summary |-> [s EXCEPT !.errors =
                                   Append(@, "Air Quality: " \o r.message)],
          escaped |-> FALSE]

\* Mutant of afterAlerts: the catch clause records the error and throws it
\* again.
afterAlerts_Rethrow(s, r) ==
    IF r.ok THEN [summary |-> [s EXCEPT !.alerts = r.value], escaped |-> FALSE]
    ELSE [summary |-> [s EXCEPT !.errors = Append(@, "Alerts: " \o r.message),
                                !.alerts = Some(AlertsUnavailable)],
          escaped |-> TRUE]

\* Mutant of afterAlerts: the catch clause leaves the field null, as the
\* other three do.
afterAlerts_NoSubstitute(s, r) ==
    IF r.ok THEN [summary |-> [s EXCEPT !.alerts = r.value], escaped |-> FALSE]
    ELSE [summary |-> [s EXCEPT !.errors = Append(@, "Alerts: " \o r.message)],
          escaped |-> FALSE]

afterAlerts(s, r) ==
    IF r.ok THEN [summary |-> [s EXCEPT !.alerts = r.value], escaped |-> FALSE]
    ELSE [summary |-> [s EXCEPT !.errors = Append(@, "Alerts: " \o r.message),
                                !.alerts = Some(AlertsUnavailable)],
          escaped |-> FALSE]

\* Mutant of afterQuakes: the error goes to the front of the list.
afterQuakes_Unshift(s, r) ==
    IF r.ok THEN [summary |-> [s EXCEPT !.earthquakes = Get(r.value)],
                  escaped |-> FALSE]
    ELSE [summary |-> [s EXCEPT !.errors =
                                   <<"Earthquakes: " \o r.message>> \o @],
          escaped |-> FALSE]

afterQuakes(s, r) ==
    IF r.ok THEN [summary |-> [s EXCEPT !.earthquakes = Get(r.value)],
                  escaped |-> FALSE]
    ELSE [summary |-> [s EXCEPT !.errors =
                                   Append(@, "Earthquakes: " \o r.message)],
          escaped |-> FALSE]

\* weatherData?.location?.latitude ?? DEFAULT_COORDINATES.lat, and the same
\* for the longitude.
airArguments(wd) ==
    [ latitude  |-> IF IsSome(wd) THEN Get(wd).location.latitude ELSE DefaultLat,
      longitude |-> IF IsSome(wd) THEN Get(wd).location.longitude
                    ELSE DefaultLon ]

NoneThrown == [weather |-> None, air |-> None, alerts |-> None, quakes |-> None]

NoRequests == [weather |-> 0, air |-> 0, alerts |-> 0, quakes |-> 0]

\* Mutant of Goto: the call returns at the first failure.
Goto_StopAtFailure(out, next) ==
    IF out.escaped THEN "rejected"
    ELSE IF out.summary.errors # <<>> THEN "done" ELSE next

\* Mutant of Goto: the air-quality try statement is left out.
Goto_SkipAir(out, next) ==
    IF out.escaped THEN "rejected" ELSE IF next = "air" THEN "alerts" ELSE next

\* Mutant of Goto: after a failure the call neither goes on nor returns.
Goto_HaltOnError(out, next) ==
    IF out.escaped \/ out.summary.errors # <<>> THEN "rejected" ELSE next

\* Where the call goes when a try statement is left.
Goto(out, next) == IF out.escaped THEN "rejected" ELSE next

\* let timerId = null; let nextRunAt = null; nothing is scheduled, nothing
\* is being sent.
SchedulerIdle ==
    /\ timerId = None
    /\ nextRunAt = None
    /\ timers = {}
    /\ sends = <<>>
    /\ clock = 0
    /\ stopped = FALSE
    /\ lastRun = "none"

\* The two calls that may be in flight together.
CallIds == {1, 2}

\* The responses a call has received so far.
NothingReceived ==
    [weather |-> None, air |-> None, alerts |-> None, quakes |-> None]

\* The locals of a call that has not been made.
IdleLocals ==
    [ pc          |-> "idle",
      city        |-> None,
      summary     |-> None,
      weatherData |-> None,
      outcome     |-> None,
      received    |-> NothingReceived ]

NoCalls == [i \in CallIds |-> IdleLocals]

\* No call has been made.
CallIdle ==
    /\ SchedulerIdle
    /\ calls = NoCalls
    /\ pc = "idle"
    /\ city = None
    /\ summary = None
    /\ weatherData = None
    /\ weatherBody = None
    /\ requests = NoRequests
    /\ attempted = <<>>
    /\ aqArgs = None
    /\ aqQuery = None
    /\ outcome = None
    /\ thrown = NoneThrown
    /\ bulletin = None
    /\ quakeFeed = None
    /\ now = 0

Init ==
    /\ CallIdle
    /\ hasFetch \in BOOLEAN
    /\ apiKey \in ApiKeys
    /\ arg = None
    /\ ret = None
    /\ phase = "off"

\* collectEnvironmentalSummary(c) is called: the summary is built.
StartCall(c) ==
    /\ pc = "idle"
    /\ city' = c
    /\ summary' = Some(NewSummary(c))
    /\ pc' = "weather"
    /\ UNCHANGED <<apiKey, weatherData, weatherBody, requests, attempted,
                   aqArgs, aqQuery, outcome, thrown, bulletin, quakeFeed,
                   now>>
    /\ UNCHANGED hostVars

\* The call, for any city argument.
Call ==
    /\ \E c \in Cities : StartCall(c)
    /\ UNCHANGED <<arg, ret, phase>>

\* fetchWeatherByCity(summary.city) runs to its first await: the request
\* is issued, or the function throws and its promise is rejected.
BeginWeather ==
    /\ pc = "weather"
    /\ attempted' = Append(attempted, "weather")
    /\ LET pre == weatherPrecheck(apiKey, hasFetch)
       IN  IF pre.ok
           THEN /\ requests' = [requests EXCEPT !.weather = @ + 1]
                /\ pc' = "weather_wait"
                /\ UNCHANGED outcome
           ELSE /\ outcome' = Some(pre)
                /\ pc' = "weather_settled"
                /\ UNCHANGED requests
    /\ UNCHANGED <<city, apiKey, summary, weatherData, weatherBody, aqArgs,
                   aqQuery, thrown, bulletin, quakeFeed, now, arg, ret, phase>>
    /\ UNCHANGED hostVars

\* The weather request settles: fetch rejects or the status is not a
\* success and the function throws, or the function awaits response.json().
RespondWeather ==
    /\ pc = "weather_wait"
    /\ \E resp \in WeatherResponses :
          IF resp.ok
          THEN /\ pc' = "weather_body"
               /\ UNCHANGED outcome
          ELSE /\ outcome' = Some(fetchWeatherByCity(Get(summary).city, resp))
               /\ pc' = "weather_settled"
    /\ UNCHANGED <<city, apiKey, summary, weatherData, weatherBody, requests,
                   attempted, aqArgs, aqQuery, thrown, bulletin, quakeFeed,
                   now, arg, ret, phase>>
    /\ UNCHANGED hostVars

\* The body of the weather response arrives: the function returns its
\* record or throws.
SettleWeather ==
    /\ pc = "weather_body"
    /\ \E resp \in {r \in WeatherResponses : r.ok} :
          /\ outcome' = Some(fetchWeatherByCity(Get(summary).city, resp))
          /\ weatherBody' = IF resp.body.kind = "json"
                            THEN resp.body.data ELSE None
    /\ pc' = "weather_settled"
    /\ UNCHANGED <<city, apiKey, summary, weatherData, requests, attempted,
                   aqArgs, aqQuery, thrown, bulletin, quakeFeed, now, arg,
                   ret, phase>>
    /\ UNCHANGED hostVars

\* The call resumes after its first await: the assignments of the try
\* block, or the catch clause.
ResumeWeather ==
    /\ pc = "weather_settled"
    /\ LET r   == Get(outcome)
           out == afterWeather(Get(summary), r)
       IN  /\ summary' = Some(out.summary)
           /\ weatherData' = IF r.ok THEN r.value ELSE None
           /\ thrown' = [thrown EXCEPT !.weather =
                             IF r.ok THEN None ELSE Some(r.message)]
           /\ pc' = Goto(out, "air")
    /\ outcome' = None
    /\ UNCHANGED <<city, apiKey, weatherBody, requests, attempted, aqArgs,
                   aqQuery, bulletin, quakeFeed, now, arg, ret, phase>>
    /\ UNCHANGED hostVars

\* fetchAirQualityByCoords(latitude, longitude) runs to its first await.
BeginAir ==
    /\ pc = "air"
    /\ attempted' = Append(attempted, "air")
    /\ aqArgs' = Some(airArguments(weatherData))
    /\ LET pre == airPrecheck(apiKey, hasFetch)
           a   == airArguments(weatherData)
       IN  IF pre.ok
           THEN /\ requests' = [requests EXCEPT !.air = @ + 1]
                /\ aqQuery' = Some(airQuery(Some(a.latitude), Some(a.longitude)))
                /\ pc' = "air_wait"
                /\ UNCHANGED outcome
           ELSE /\ outcome' = Some(pre)
                /\ pc' = "air_settled"
                /\ UNCHANGED <<requests, aqQuery>>
    /\ UNCHANGED <<city, apiKey, summary, weatherData, weatherBody, thrown,
                   bulletin, quakeFeed, now, arg, ret, phase>>
    /\ UNCHANGED hostVars

\* The air-quality request settles.
RespondAir ==
    /\ pc = "air_wait"
    /\ \E resp \in AirResponses :
          IF resp.ok
          THEN /\ pc' = "air_body"
               /\ UNCHANGED outcome
          ELSE /\ outcome' = Some(fetchAirQualityByCoords(resp))
               /\ pc' = "air_settled"
    /\ UNCHANGED <<city, apiKey, summary, weatherData, weatherBody, requests,
                   attempted, aqArgs, aqQuery, thrown, bulletin, quakeFeed,
                   now, arg, ret, phase>>
    /\ UNCHANGED hostVars

\* The body of the air-quality response arrives.
SettleAir ==
    /\ pc = "air_body"
    /\ \E resp \in {r \in AirResponses : r.ok} :
          outcome' = Some(fetchAirQualityByCoords(resp))
    /\ pc' = "air_settled"
    /\ UNCHANGED <<city, apiKey, summary, weatherData, weatherBody, requests,
                   attempted, aqArgs, aqQuery, thrown, bulletin, quakeFeed,
                   now, arg, ret, phase>>
    /\ UNCHANGED hostVars

\* The call resumes after its second await.
ResumeAir ==
    /\ pc = "air_settled"
    /\ LET r   == Get(outcome)
           out == afterAir(Get(summary), r)
       IN  /\ summary' = Some(out.summary)
           /\ thrown' = [thrown EXCEPT !.air =
                             IF r.ok THEN None ELSE Some(r.message)]
           /\ pc' = Goto(out, "alerts")
    /\ outcome' = None
    /\ UNCHANGED <<city, apiKey, weatherData, weatherBody, requests, attempted,
                   aqArgs, aqQuery, bulletin, quakeFeed, now, arg, ret, phase>>
    /\ UNCHANGED hostVars

\* fetchUttarakhandAlerts() runs to its first await.
BeginAlerts ==
    /\ pc = "alerts"
    /\ attempted' = Append(attempted, "alerts")
    /\ LET pre == alertsPrecheck(hasFetch)
       IN  IF pre.ok
           THEN /\ requests' = [requests EXCEPT !.alerts = @ + 1]
                /\ pc' = "alerts_wait"
                /\ UNCHANGED outcome
           ELSE /\ outcome' = Some(pre)
                /\ pc' = "alerts_settled"
                /\ UNCHANGED requests
    /\ UNCHANGED <<city, apiKey, summary, weatherData, weatherBody, aqArgs,
                   aqQuery, thrown, bulletin, quakeFeed, now, arg, ret, phase>>
    /\ UNCHANGED hostVars

\* The bulletin request settles.
RespondAlerts ==
    /\ pc = "alerts_wait"
    /\ \E resp \in AlertResponses :
          IF resp.ok
          THEN /\ pc' = "alerts_body"
               /\ UNCHANGED outcome
          ELSE /\ outcome' = Some(fetchUttarakhandAlerts(resp))
               /\ pc' = "alerts_settled"
    /\ UNCHANGED <<city, apiKey, summary, weatherData, weatherBody, requests,
                   attempted, aqArgs, aqQuery, thrown, bulletin, quakeFeed,
                   now, arg, ret, phase>>
    /\ UNCHANGED hostVars

\* The text of the bulletin arrives.
SettleAlerts ==
    /\ pc = "alerts_body"
    /\ \E resp \in {r \in AlertResponses : r.ok} :
          /\ outcome' = Some(fetchUttarakhandAlerts(resp))
          /\ bulletin' = Some(resp.body)
    /\ pc' = "alerts_settled"
    /\ UNCHANGED <<city, apiKey, summary, weatherData, weatherBody, requests,
                   attempted, aqArgs, aqQuery, thrown, quakeFeed, now, arg,
                   ret, phase>>
    /\ UNCHANGED hostVars

\* The call resumes after its third await.
ResumeAlerts ==
    /\ pc = "alerts_settled"
    /\ LET r   == Get(outcome)
           out == afterAlerts(Get(summary), r)
       IN  /\ summary' = Some(out.summary)
           /\ thrown' = [thrown EXCEPT !.alerts =
                             IF r.ok THEN None ELSE Some(r.message)]
           /\ pc' = Goto(out, "quakes")
    /\ outcome' = None
    /\ UNCHANGED <<city, apiKey, weatherData, weatherBody, requests, attempted,
                   aqArgs, aqQuery, bulletin, quakeFeed, now, arg, ret, phase>>
    /\ UNCHANGED hostVars

\* fetchUttarakhandEarthquakes() runs to its first await.
BeginQuakes ==
    /\ pc = "quakes"
    /\ attempted' = Append(attempted, "quakes")
    /\ LET pre == quakesPrecheck(hasFetch)
       IN  IF pre.ok
           THEN /\ requests' = [requests EXCEPT !.quakes = @ + 1]
                /\ pc' = "quakes_wait"
                /\ UNCHANGED outcome
           ELSE /\ outcome' = Some(pre)
                /\ pc' = "quakes_settled"
                /\ UNCHANGED requests
    /\ UNCHANGED <<city, apiKey, summary, weatherData, weatherBody, aqArgs,
                   aqQuery, thrown, bulletin, quakeFeed, now, arg, ret, phase>>
    /\ UNCHANGED hostVars

\* The seismic request settles.
RespondQuakes ==
    /\ pc = "quakes_wait"
    /\ \E resp \in QuakeResponses :
          IF resp.ok
          THEN /\ pc' = "quakes_body"
               /\ UNCHANGED outcome
          ELSE /\ outcome' = Some(fetchUttarakhandEarthquakes(resp, 0))
               /\ pc' = "quakes_settled"
    /\ UNCHANGED <<city, apiKey, summary, weatherData, weatherBody, requests,
                   attempted, aqArgs, aqQuery, thrown, bulletin, quakeFeed,
                   now, arg, ret, phase>>
    /\ UNCHANGED hostVars

\* The text of the seismic feed arrives: the rows are read and filtered at
\* the instant Date.now() gives.
SettleQuakes ==
    /\ pc = "quakes_body"
    /\ \E resp \in {r \in QuakeResponses : r.ok}, instant \in Instants :
          /\ outcome' = Some(fetchUttarakhandEarthquakes(resp, instant))
          /\ quakeFeed' = Some(resp.body)
          /\ now' = instant
    /\ pc' = "quakes_settled"
    /\ UNCHANGED <<city, apiKey, summary, weatherData, weatherBody, requests,
                   attempted, aqArgs, aqQuery, thrown, bulletin, arg, ret,
                   phase>>
    /\ UNCHANGED hostVars

\* The call resumes after its last await and returns the summary.
ResumeQuakes ==
    /\ pc = "quakes_settled"
    /\ LET r   == Get(outcome)
           out == afterQuakes(Get(summary), r)
       IN  /\ summary' = Some(out.summary)
           /\ thrown' = [thrown EXCEPT !.quakes =
                             IF r.ok THEN None ELSE Some(r.message)]
           /\ pc' = Goto(out, "done")
    /\ outcome' = None
    /\ UNCHANGED <<city, apiKey, weatherData, weatherBody, requests, attempted,
                   aqArgs, aqQuery, bulletin, quakeFeed, now, arg, ret, phase>>
    /\ UNCHANGED hostVars

\* The steps of the four source calls.
SourceStep ==
    \/ BeginWeather
    \/ RespondWeather
    \/ SettleWeather
    \/ ResumeWeather
    \/ BeginAir
    \/ RespondAir
    \/ SettleAir
    \/ ResumeAir
    \/ BeginAlerts
    \/ RespondAlerts
    \/ SettleAlerts
    \/ ResumeAlerts
    \/ BeginQuakes
    \/ RespondQuakes
    \/ SettleQuakes
    \/ ResumeQuakes

Next ==
    \/ Call
    \/ SourceStep

Spec == Init /\ [][Next]_vars

\* The code of the call runs whenever it can: a source function is entered
\* once the statement before it is left, and the call resumes once the
\* promise it awaits is settled.
CodeRuns ==
    /\ WF_vars(BeginWeather)
    /\ WF_vars(ResumeWeather)
    /\ WF_vars(BeginAir)
    /\ WF_vars(ResumeAir)
    /\ WF_vars(BeginAlerts)
    /\ WF_vars(ResumeAlerts)
    /\ WF_vars(BeginQuakes)
    /\ WF_vars(ResumeQuakes)

\* Every issued request settles, and so does the read of its body.
SpecSettling ==
    /\ Spec
    /\ CodeRuns
    /\ WF_vars(RespondWeather)
    /\ WF_vars(SettleWeather)
    /\ WF_vars(RespondAir)
    /\ WF_vars(SettleAir)
    /\ WF_vars(RespondAlerts)
    /\ WF_vars(SettleAlerts)
    /\ WF_vars(RespondQuakes)
    /\ WF_vars(SettleQuakes)

\* Every issued request settles, except that the weather request may stay
\* pending for ever.
SpecWeatherPending ==
    /\ Spec
    /\ CodeRuns
    /\ WF_vars(SettleWeather)
    /\ WF_vars(RespondAir)
    /\ WF_vars(SettleAir)
    /\ WF_vars(RespondAlerts)
    /\ WF_vars(SettleAlerts)
    /\ WF_vars(RespondQuakes)
    /\ WF_vars(SettleQuakes)

-----------------------------------------------------------------------------
(* The seismic source on its own: fetchUttarakhandEarthquakes for every    *)
(* document of up to MaxQuakeRows rows and both instants.                  *)

\* Rows of the region dated 13 March 06:00 (old), 14 March 09:00 (24 hours
\* before the first instant), 15 March 03:00, 15 March 20:00 (after the
\* first instant) and without a date; a row of another region, a row of the
\* region in upper case (its fifth cell has a "<" that the closing tag of
\* the cell alone closes), a row without a number in its fourth and fifth
\* cell, and a row of five cells.  The fifth cell is 0 in the row of 15 March
\* 03:00 and no number in the row of 15 March 20:00.
QuakeRowKinds ==
    { QuakeRow(<<DmySlash[13]>>, <<HourMinute[6]>>, <<"10">>, <<"3">>,
               Place("Uttarakhand")),
      QuakeRow(<<YmdSlash[14]>>, <<HourMinute[9]>>, <<"10">>, <<"4.5">>,
               Place("Uttarakhand")),
      QuakeRow(<<YmdDash[15]>>, <<HourMinute[3]>>, <<"5.25">>, <<"0">>,
               Place("Uttarakhand")),
      QuakeRow(<<DmyDash[15]>>, <<HourMinute[20]>>, <<"10">>, <<"N/A">>,
               Place("Uttarakhand")),
      QuakeRow(<<"--">>, <<"--">>, <<"10">>, <<"4.5">>, Place("Uttarakhand")),
      QuakeRow(<<DmySlash[15]>>, <<HourMinute[3]>>, <<"10">>, <<"4.5">>,
               Place("Delhi")),
      QuakeRow(<<"<b>", DmySlash[15], "</b>">>, <<"&nbsp;", HourMinute[6]>>,
               <<"10">>, <<"3", "&lt;", "b">>, Place("UTTARAKHAND")),
      QuakeRow(<<DmySlash[15]>>, <<HourMinute[6]>>, <<"N/A">>, <<>>,
               Place("Uttarakhand")),
      <<<<DmySlash[15]>>, <<HourMinute[3]>>, <<"30.1">>, <<"4.5">>,
        Place("Uttarakhand")>> }

InitQuakes ==
    /\ CallIdle
    /\ hasFetch \in BOOLEAN
    /\ apiKey = None
    /\ arg \in {[feed |-> f, instant |-> t] :
                   f \in SeqsUpTo(QuakeRowKinds, MaxQuakeRows), t \in Instants}
    /\ ret = None
    /\ phase = "quakes_ready"

\* fetchUttarakhandEarthquakes() runs to its first await: the request is
\* issued, or the function throws.
FetchQuakesBegin ==
    /\ phase = "quakes_ready"
    /\ attempted' = Append(attempted, "quakes")
    /\ LET pre == quakesPrecheck(hasFetch)
       IN  IF pre.ok
           THEN /\ requests' = [requests EXCEPT !.quakes = @ + 1]
                /\ phase' = "quakes_wait"
                /\ UNCHANGED ret
           ELSE /\ ret' = pre
                /\ phase' = "quakes_failed"
                /\ UNCHANGED requests
    /\ UNCHANGED <<pc, city, apiKey, summary, weatherData, weatherBody,
                    aqArgs, aqQuery, outcome, thrown, bulletin, quakeFeed,
                    now, arg>>
    /\ UNCHANGED hostVars

\* The request settles: fetch rejects or the status is not a success and
\* the function throws, or the function awaits the body.
FetchQuakesRespond ==
    /\ phase = "quakes_wait"
    /\ \E resp \in {Rejected, Status(500), Ok(arg.feed)} :
          IF resp.ok
          THEN /\ phase' = "quakes_body"
               /\ UNCHANGED ret
          ELSE /\ ret' = fetchUttarakhandEarthquakes(resp, arg.instant)
               /\ phase' = "quakes_failed"
    /\ UNCHANGED <<pc, city, apiKey, summary, weatherData, weatherBody,
                    requests, attempted, aqArgs, aqQuery, outcome, thrown,
                    bulletin, quakeFeed, now, arg>>
    /\ UNCHANGED hostVars

\* The body arrives: the function returns or throws.
FetchQuakesSettle ==
    /\ phase = "quakes_body"
    /\ ret' = fetchUttarakhandEarthquakes(Ok(arg.feed), arg.instant)
    /\ quakeFeed' = Some(arg.feed)
    /\ now' = arg.instant
    /\ phase' = "quakes_done"
    /\ UNCHANGED <<pc, city, apiKey, summary, weatherData, weatherBody,
                    requests, attempted, aqArgs, aqQuery, outcome, thrown,
                    bulletin, arg>>
    /\ UNCHANGED hostVars

NextQuakes ==
    \/ FetchQuakesBegin
    \/ FetchQuakesRespond
    \/ FetchQuakesSettle

SpecQuakes == InitQuakes /\ [][NextQuakes]_vars

-----------------------------------------------------------------------------
(* The category mapping on its own: mapAqiCategory for an absent index and *)
(* for every number from -1 to MaxAqi in steps of one hundredth.           *)

AqiInputs == {None} \cup {Some(NumV(n)) : n \in (-100)..(100 * MaxAqi)}

InitAqi ==
    /\ CallIdle
    /\ hasFetch = TRUE
    /\ apiKey = None
    /\ arg \in AqiInputs
    /\ ret = None
    /\ phase = "aqi_ready"

MapAqi ==
    /\ phase = "aqi_ready"
    /\ ret' = mapAqiCategory(arg)
    /\ phase' = "aqi_done"
    /\ UNCHANGED <<callVars, arg>>

NextAqi == MapAqi

SpecAqi == InitAqi /\ [][NextAqi]_vars

-----------------------------------------------------------------------------
(* The air-quality source on its own: fetchAirQualityByCoords on a        *)
(* response whose first reading carries the index value.                   *)

\* The index values of the readings: none, every number from -1 to MaxAqi
\* in steps of one hundredth, and texts: a numeral, the empty text, a word
\* and the name of an inherited member.
AqiReadings ==
    AqiInputs \cup {Some(StrV(t)) : t \in {"3", "", "abc", "constructor"}}

\* The response whose only reading carries the index value.
AirResponseOf(value) == Ok(Json(AirBody(Some(<<Reading(value)>>))))

InitAir ==
    /\ CallIdle
    /\ hasFetch \in BOOLEAN
    /\ apiKey \in ApiKeys
    /\ arg \in AqiReadings
    /\ ret = None
    /\ phase = "air_ready"

\* fetchAirQualityByCoords at the fallback coordinate runs to its first
\* await: the request is issued, or the function throws.
FetchAirBegin ==
    /\ phase = "air_ready"
    /\ attempted' = Append(attempted, "air")
    /\ aqArgs' = Some(airArguments(None))
    /\ LET pre == airPrecheck(apiKey, hasFetch)
       IN  IF pre.ok
           THEN /\ requests' = [requests EXCEPT !.air = @ + 1]
                /\ aqQuery' = Some(airQuery(Some(DefaultLat), Some(DefaultLon)))
                /\ phase' = "air_wait"
                /\ UNCHANGED ret
           ELSE /\ ret' = pre
                /\ phase' = "air_failed"
                /\ UNCHANGED <<requests, aqQuery>>
    /\ UNCHANGED <<pc, city, apiKey, summary, weatherData, weatherBody,
                    outcome, thrown, bulletin, quakeFeed, now, arg>>
    /\ UNCHANGED hostVars

\* The request settles: fetch rejects or the status is not a success and
\* the function throws, or the function awaits the body.
FetchAirRespond ==
    /\ phase = "air_wait"
    /\ \E resp \in {Rejected, Status(404), AirResponseOf(arg)} :
          IF resp.ok
          THEN /\ phase' = "air_body"
               /\ UNCHANGED ret
          ELSE /\ ret' = fetchAirQualityByCoords(resp)
               /\ phase' = "air_failed"
    /\ UNCHANGED <<pc, city, apiKey, summary, weatherData, weatherBody,
                    requests, attempted, aqArgs, aqQuery, outcome, thrown,
                    bulletin, quakeFeed, now, arg>>
    /\ UNCHANGED hostVars

\* The body arrives: the function returns or throws.
FetchAirSettle ==
    /\ phase = "air_body"
    /\ ret' = fetchAirQualityByCoords(AirResponseOf(arg))
    /\ phase' = "air_done"
    /\ UNCHANGED <<pc, city, apiKey, summary, weatherData, weatherBody,
                    requests, attempted, aqArgs, aqQuery, outcome, thrown,
                    bulletin, quakeFeed, now, arg>>
    /\ UNCHANGED hostVars

NextAir ==
    \/ FetchAirBegin
    \/ FetchAirRespond
    \/ FetchAirSettle

SpecAir == InitAir /\ [][NextAir]_vars

-----------------------------------------------------------------------------
(* The weather source on its own: fetchWeatherByCity on a response with    *)
(* the given rain and main blocks.                                         *)

\* A measurement of the rain block: absent, 0, 2.54 mm, 12 mm.
Measurements == {None, Some(0), Some(254), Some(1200)}

RainBlocks == {None} \cup {Rain(h1, h3) : h1 \in Measurements, h3 \in Measurements}

\* Temperatures: absent, 21.6, 21.5, 21.4, -3.6, 0.
Temperatures == {None, Some(2160), Some(2150), Some(2140), Some(-360), Some(0)}

\* Humidities: absent, 54.2, 54.5, 100.
Humidities == {None, Some(5420), Some(5450), Some(10000)}

MainBlocks == {None} \cup {Main(t, h) : t \in Temperatures, h \in Humidities}

\* The response with the blocks of the input.
WeatherResponseOf(input) ==
    Ok(Json(Some(WeatherData(Coord(Some(303165), Some(780322)),
                             input.rain, input.main))))

InitWeather ==
    /\ CallIdle
    /\ hasFetch \in BOOLEAN
    /\ apiKey \in ApiKeys
    /\ arg \in {[rain |-> r, main |-> m] : r \in RainBlocks, m \in MainBlocks}
    /\ ret = None
    /\ phase = "weather_ready"

\* fetchWeatherByCity("Dehradun") runs to its first await: the request is
\* issued, or the function throws.
FetchWeatherBegin ==
    /\ phase = "weather_ready"
    /\ attempted' = Append(attempted, "weather")
    /\ LET pre == weatherPrecheck(apiKey, hasFetch)
       IN  IF pre.ok
           THEN /\ requests' = [requests EXCEPT !.weather = @ + 1]
                /\ phase' = "weather_wait"
                /\ UNCHANGED ret
           ELSE /\ ret' = pre
                /\ phase' = "weather_failed"
                /\ UNCHANGED requests
    /\ UNCHANGED <<pc, city, apiKey, summary, weatherData, weatherBody,
                    aqArgs, aqQuery, outcome, thrown, bulletin, quakeFeed,
                    now, arg>>
    /\ UNCHANGED hostVars

\* The request settles: fetch rejects or the status is not a success and
\* the function throws, or the function awaits the body.
FetchWeatherRespond ==
    /\ phase = "weather_wait"
    /\ \E resp \in {Rejected, Status(404), WeatherResponseOf(arg)} :
          IF resp.ok
          THEN /\ phase' = "weather_body"
               /\ UNCHANGED ret
          ELSE /\ ret' = fetchWeatherByCity(DefaultCity, resp)
               /\ phase' = "weather_failed"
    /\ UNCHANGED <<pc, city, apiKey, summary, weatherData, weatherBody,
                    requests, attempted, aqArgs, aqQuery, outcome, thrown,
                    bulletin, quakeFeed, now, arg>>
    /\ UNCHANGED hostVars

\* The body arrives: the function returns or throws.
FetchWeatherSettle ==
    /\ phase = "weather_body"
    /\ ret' = fetchWeatherByCity(DefaultCity, WeatherResponseOf(arg))
    /\ weatherBody' = WeatherResponseOf(arg).body.data
    /\ phase' = "weather_done"
    /\ UNCHANGED <<pc, city, apiKey, summary, weatherData, requests,
                    attempted, aqArgs, aqQuery, outcome, thrown, bulletin,
                    quakeFeed, now, arg>>
    /\ UNCHANGED hostVars

NextWeather ==
    \/ FetchWeatherBegin
    \/ FetchWeatherRespond
    \/ FetchWeatherSettle

SpecWeather == InitWeather /\ [][NextWeather]_vars

-----------------------------------------------------------------------------
(* The bulletin source on its own: fetchUttarakhandAlerts for every        *)
(* document of up to MaxAlertRows rows.                                    *)

\* Rows of a bulletin: another subdivision, with entities in its notice (one
\* in upper case, a degree sign, a tag spelled with &lt; and &gt;) and a
\* cell with a script block whose tags are spelled with entities; the
\* region in upper case inside a tag, with "N/A" and a notice; the region
\* with the same notice twice; the region named in the second cell only,
\* with cells in which a "<" is closed by the closing tag of the cell alone;
\* the region with nothing but blank and discarded cells; a row without
\* cells; the region without any other cell.
AlertRowKinds ==
    { <<<<"Delhi">>,
        <<"Heavy rain", "&NBSP;", "25", "&#176;", "&lt;", "b", "&gt;">>,
        <<"&lt;", "script", " ", "&gt;", "b", "&lt;", "/SCRIPT", "&gt;",
          "rain">>>>,
      <<<<"<b>", "UTTARAKHAND", "</b>">>, <<"N/A">>,
        <<"Heavy", "&nbsp;", " ", "rain">>>>,
      <<<<"Uttarakhand">>, <<"Flood alert">>, <<"Flood alert">>>>,
      <<<<"Kumaon">>, <<"Parts", " ", "of", " ", "Uttarakhand">>, <<"Nil">>,
        <<"&lt;">>, <<"25", "&#176;", "&lt;", "30">>>>,
      <<<<"uttarakhand">>, <<" ">>, <<"No warning">>, <<"<br/>">>,
        <<"Manila", " ", "rain">>>>,
      <<>>,
      <<<<"Uttarakhand">>>> }

InitAlerts ==
    /\ CallIdle
    /\ hasFetch \in BOOLEAN
    /\ apiKey = None
    /\ arg \in {[doc |-> d] : d \in SeqsUpTo(AlertRowKinds, MaxAlertRows)}
    /\ ret = None
    /\ phase = "alerts_ready"

\* fetchUttarakhandAlerts() runs to its first await: the request is issued,
\* or the function throws.
FetchAlertsBegin ==
    /\ phase = "alerts_ready"
    /\ attempted' = Append(attempted, "alerts")
    /\ LET pre == alertsPrecheck(hasFetch)
       IN  IF pre.ok
           THEN /\ requests' = [requests EXCEPT !.alerts = @ + 1]
                /\ phase' = "alerts_wait"
                /\ UNCHANGED ret
           ELSE /\ ret' = pre
                /\ phase' = "alerts_failed"
                /\ UNCHANGED requests
    /\ UNCHANGED <<pc, city, apiKey, summary, weatherData, weatherBody,
                    aqArgs, aqQuery, outcome, thrown, bulletin, quakeFeed,
                    now, arg>>
    /\ UNCHANGED hostVars

\* The request settles: fetch rejects or the status is not a success and
\* the function throws, or the function awaits the body.
FetchAlertsRespond ==
    /\ phase = "alerts_wait"
    /\ \E resp \in {Rejected, Status(503), Ok(arg.doc)} :
          IF resp.ok
          THEN /\ phase' = "alerts_body"
               /\ UNCHANGED ret
          ELSE /\ ret' = fetchUttarakhandAlerts(resp)
               /\ phase' = "alerts_failed"
    /\ UNCHANGED <<pc, city, apiKey, summary, weatherData, weatherBody,
                    requests, attempted, aqArgs, aqQuery, outcome, thrown,
                    bulletin, quakeFeed, now, arg>>
    /\ UNCHANGED hostVars

\* The body arrives: the function returns or throws.
FetchAlertsSettle ==
    /\ phase = "alerts_body"
    /\ ret' = fetchUttarakhandAlerts(Ok(arg.doc))
    /\ bulletin' = Some(arg.doc)
    /\ phase' = "alerts_done"
    /\ UNCHANGED <<pc, city, apiKey, summary, weatherData, weatherBody,
                    requests, attempted, aqArgs, aqQuery, outcome, thrown,
                    quakeFeed, now, arg>>
    /\ UNCHANGED hostVars

NextAlerts ==
    \/ FetchAlertsBegin
    \/ FetchAlertsRespond
    \/ FetchAlertsSettle

SpecAlerts == InitAlerts /\ [][NextAlerts]_vars

-----------------------------------------------------------------------------
(* The "environment:summary" handler of electron/main.js: it takes the     *)
(* city of the request or of the stored user profile, awaits               *)
(* collectEnvironmentalSummary and replies.                                *)

\* The city option of a request: absent, blank, one letter, two words.
IpcOptions == {None, Some(<<" ">>), Some(<<"a">>), Some(TwoWordCity)}

\* getUserProfile(): the query is rejected, there is no row, or the row has
\* this city.
ProfileRejected == [kind |-> "reject", city |-> None]

NoProfile == [kind |-> "row", city |-> None]

Profile(c) == [kind |-> "row", city |-> Some(c)]

ProfileOutcomes == {ProfileRejected, NoProfile, Profile(<<"B">>)}

ProfileMessage == "SQLITE_ERROR: no such table: user_profile"

ReplyData(s) == [ok |-> TRUE, data |-> Some(s), error |-> ""]

ReplyError(msg) == [ok |-> FALSE, data |-> None, error |-> msg]

\* (options?.city || "").trim()
targetCityOf(options) == trim(Coalesce(options, <<>>))

InitIpc ==
    /\ CallIdle
    /\ hasFetch \in BOOLEAN
    /\ apiKey \in ApiKeys
    /\ arg \in IpcOptions
    /\ ret = None
    /\ phase = "ipc_ready"

\* The handler up to its first await: with a city in the request the
\* aggregator is called, without one the profile is looked up.
IpcBegin ==
    /\ phase = "ipc_ready"
    /\ IF targetCityOf(arg) # <<>>
       THEN /\ StartCall(Some(targetCityOf(arg)))
            /\ phase' = "ipc_collect"
       ELSE /\ phase' = "ipc_profile"
            /\ UNCHANGED callVars
    /\ UNCHANGED <<arg, ret>>

\* The profile lookup settles: a rejection goes to the catch clause, which
\* replies; otherwise the aggregator is called with the city of the profile,
\* or with the empty text when there is none.
IpcProfile ==
    /\ phase = "ipc_profile"
    /\ \E profile \in ProfileOutcomes :
          IF profile.kind = "reject"
          THEN /\ ret' = ReplyError(ProfileMessage)
               /\ phase' = "ipc_done"
               /\ UNCHANGED callVars
          ELSE /\ StartCall(Some(Coalesce(profile.city, <<>>)))
               /\ phase' = "ipc_collect"
               /\ UNCHANGED ret
    /\ UNCHANGED arg

\* collectEnvironmentalSummary has settled: the reply.
IpcReply ==
    /\ phase = "ipc_collect"
    /\ pc \in {"done", "rejected"}
    /\ ret' = IF pc = "done" THEN ReplyData(Get(summary))
              ELSE ReplyError(Get(summary).errors[Len(Get(summary).errors)])
    /\ phase' = "ipc_done"
    /\ UNCHANGED <<callVars, arg>>

NextIpc ==
    \/ IpcBegin
    \/ IpcProfile
    \/ SourceStep
    \/ IpcReply

SpecIpc == InitIpc /\ [][NextIpc]_vars

-----------------------------------------------------------------------------
(* The daily digest scheduler (scheduler.js, first half).                   *)
(*                                                                          *)
(* Instants are whole minutes counted from a local midnight: the target of  *)
(* a run has zero seconds, so comparing it with the clock truncated to the  *)
(* minute gives what the code's comparison in milliseconds gives.  A day    *)
(* has 24 hours (no change of the local offset).  A value that the code     *)
(* passes through Number() is the option of that number: None when the      *)
(* result is not finite.                                                    *)

\* Longest run of the clock, in steps of two hours.
MaxTicks == 18

\* Most digest runs, scheduled or being sent, that exist together.
MaxRuns == 2

\* process.env: DAILY_DIGEST_ENABLED, and Number() of DAILY_DIGEST_HOUR and
\* of DAILY_DIGEST_MINUTE.
DigestEnvs ==
    { [enabled |-> None,          hour |-> None,     minute |-> None],
      [enabled |-> Some(""),      hour |-> Some(30), minute |-> None],
      [enabled |-> Some("false"), hour |-> None,     minute |-> None] }

\* The options of a start call: Number() of options.hour and options.minute.
StartOptions ==
    { [hour |-> None,     minute |-> None],
      [hour |-> Some(-3), minute |-> Some(75)] }

\* Number.isFinite(Number(a)) ? Number(a)
\*   : Number.isFinite(Number(b)) ? Number(b) : d
firstFinite(a, b, d) ==
    IF IsSome(a) THEN Get(a) ELSE IF IsSome(b) THEN Get(b) ELSE d

\* Math.min(Math.max(x, lo), hi)
clamp(x, lo, hi) ==
    LET m == IF x > lo THEN x ELSE lo IN IF m < hi THEN m ELSE hi

resolveScheduleOptions(env, options) ==
    [ enabled |-> IF IsSome(env.enabled) /\ Get(env.enabled) # ""
                  THEN Get(env.enabled) # "false" ELSE TRUE,
      hour    |-> clamp(firstFinite(env.hour, options.hour, 10), 0, 23),
      minute  |-> clamp(firstFinite(env.minute, options.minute, 0), 0, 59) ]

\* computeNextRun(hour, minute) when new Date() is t.
computeNextRun(hour, minute, t) ==
    LET target == (t \div (24 * 60)) * (24 * 60) + hour * 60 + minute
    IN  IF target <= t THEN target + 24 * 60 ELSE target

\* The Timeout object that setTimeout returns, told from the pending ones.
newTimeout(pending) ==
    CHOOSE i \in 1..(Cardinality(pending) + 1) :
        /\ \A t \in pending : t.id # i
        /\ \A j \in 1..(i - 1) : \E t \in pending : t.id = j

\* scheduleNextRun(hour, minute): the timeout it sets.
scheduleNextRun(hour, minute) ==
    LET target == computeNextRun(hour, minute, clock)
        t      == [id |-> newTimeout(timers), at |-> target,
                   hour |-> hour, minute |-> minute]
    IN  /\ nextRunAt' = Some(target)
        /\ timerId' = Some(t.id)
        /\ timers' = timers \cup {t}

\* Mutant of SettledRun: the next run is scheduled after a dispatched
\* digest only.
SettledRun_TryOnly(run, sent) ==
    /\ lastRun' = IF sent THEN "dispatched" ELSE "failed"
    /\ IF sent THEN scheduleNextRun(run.hour, run.minute)
       ELSE UNCHANGED <<nextRunAt, timerId, timers>>

\* runDigestAndSchedule after its await: the log entry, then the finally
\* clause.
SettledRun(run, sent) ==
    /\ lastRun' = IF sent THEN "dispatched" ELSE "failed"
    /\ scheduleNextRun(run.hour, run.minute)

getNextScheduledDigest == nextRunAt

\* The single call and the function under check are not in use.
HostOnly ==
    UNCHANGED <<pc, city, apiKey, summary, weatherData, weatherBody, requests,
                attempted, aqArgs, aqQuery, outcome, thrown, bulletin, quakeFeed,
                now,
                arg, ret, phase, hasFetch>>

InitDigest ==
    /\ CallIdle
    /\ hasFetch = TRUE
    /\ apiKey = None
    /\ arg \in DigestEnvs
    /\ ret = None
    /\ phase = "digest"

\* startDailyDigestScheduler(options)
StartDigest ==
    /\ phase = "digest"
    /\ stopped' = FALSE
    /\ \E options \in StartOptions :
          LET config == resolveScheduleOptions(arg, options)
          IN  IF IsSome(timerId) \/ ~config.enabled
              THEN UNCHANGED <<nextRunAt, timerId, timers>>
              ELSE /\ Cardinality(timers) + Len(sends) < MaxRuns
                   /\ scheduleNextRun(config.hour, config.minute)
    /\ UNCHANGED <<sends, clock, lastRun, calls>>
    /\ HostOnly

\* stopDailyDigestScheduler()
StopDigest ==
    /\ phase = "digest"
    /\ IF IsSome(timerId)
       THEN /\ timers' = {t \in timers : t.id # Get(timerId)}
            /\ timerId' = None
       ELSE UNCHANGED <<timers, timerId>>
    /\ nextRunAt' = None
    /\ stopped' = TRUE
    /\ UNCHANGED <<sends, clock, lastRun, calls>>
    /\ HostOnly

\* A timeout is due: runDigestAndSchedule up to its await.
TimerFires ==
    /\ phase = "digest"
    /\ \E t \in timers :
          /\ clock >= t.at
          /\ timers' = timers \ {t}
          /\ sends' = Append(sends, [hour |-> t.hour, minute |-> t.minute])
    /\ timerId' = None
    /\ UNCHANGED <<nextRunAt, clock, stopped, lastRun, calls>>
    /\ HostOnly

\* sendDigestEmail() settles, fulfilled or rejected.
SendSettles ==
    /\ phase = "digest"
    /\ \E i \in 1..Len(sends), sent \in BOOLEAN :
          /\ sends' = SubSeq(sends, 1, i - 1) \o SubSeq(sends, i + 1, Len(sends))
          /\ SettledRun(sends[i], sent)
    /\ UNCHANGED <<clock, stopped, calls>>
    /\ HostOnly

\* Two hours pass.
Tick ==
    /\ phase = "digest"
    /\ clock < MaxTicks * 120
    /\ clock' = clock + 120
    /\ UNCHANGED <<timerId, nextRunAt, timers, sends, stopped, lastRun, calls>>
    /\ HostOnly

NextDigest ==
    \/ StartDigest
    \/ StopDigest
    \/ TimerFires
    \/ SendSettles
    \/ Tick

SpecDigest == InitDigest /\ [][NextDigest]_vars

-----------------------------------------------------------------------------
(* Two collectEnvironmentalSummary calls in flight together.                *)
(*                                                                          *)
(* `summary` and `weatherData` are declared inside the function, so each    *)
(* call has its own; process.env is the only state the calls share, and     *)
(* they only read it.  Each call is given its own responses.                *)

ConcurrentCities == {None, Some(TwoWordCity)}

\* A failure and a success of each endpoint.
ConcurrentWeather ==
    {Status(404), Ok(Json(Some(WeatherBody(Coord(Some(286139), Some(772090))))))}

ConcurrentAir ==
    {Rejected, Ok(Json(AirBody(Some(<<Reading(Some(NumV(200)))>>))))}

ConcurrentAlerts == {Status(503), Ok(ScenarioBulletin)}

ConcurrentQuakes == {Status(500), Ok(ScenarioFeed)}

\* Date.now() at the seismic filter of either call.
ConcurrentInstant == 14 * 24 + 9

\* Mutant of localsOf: once the first call is made, its `summary` and
\* `weatherData` are the ones every call reads.
localsOf_Shared(cs, i) ==
    IF IsSome(cs[1].summary)
    THEN [cs[i] EXCEPT !.summary = cs[1].summary,
                       !.weatherData = cs[1].weatherData]
    ELSE cs[i]

\* The locals that the code of call i reads.
localsOf(cs, i) == cs[i]

\* The call is made with city c: the summary is built.
called(c) ==
    [ pc          |-> "weather",
      city        |-> c,
      summary     |-> Some(NewSummary(c)),
      weatherData |-> None,
      outcome     |-> None,
      received    |-> NothingReceived ]

\* A source function from its call to its first await, on the locals l: the
\* request is issued, or the function throws.
begun(l, key, f) ==
    LET pre == CASE l.pc = "weather" -> weatherPrecheck(key, f)
                 [] l.pc = "air"     -> airPrecheck(key, f)
                 [] l.pc = "alerts"  -> alertsPrecheck(f)
                 [] l.pc = "quakes"  -> quakesPrecheck(f)
    IN  IF pre.ok THEN [l EXCEPT !.pc = l.pc \o "_wait"]
        ELSE [l EXCEPT !.outcome = Some(pre), !.pc = l.pc \o "_settled"]

\* The responses that may settle the request the locals l wait for, and the
\* ones whose body they may be reading.
awaited(l) ==
    CASE l.pc \in {"weather_wait", "weather_body"} -> ConcurrentWeather
      [] l.pc \in {"air_wait", "air_body"}         -> ConcurrentAir
      [] l.pc \in {"alerts_wait", "alerts_body"}   -> ConcurrentAlerts
      [] l.pc \in {"quakes_wait", "quakes_body"}   -> ConcurrentQuakes
      [] OTHER                                     -> {}

\* The source waited for on the locals l.
sourceOf(l) ==
    CASE l.pc \in {"weather_wait", "weather_body"} -> "weather"
      [] l.pc \in {"air_wait", "air_body"}         -> "air"
      [] l.pc \in {"alerts_wait", "alerts_body"}   -> "alerts"
      [] l.pc \in {"quakes_wait", "quakes_body"}   -> "quakes"

\* The source function settles on the response resp, which failed or whose
\* body has arrived: it returns or throws, on the locals l.
settled(l, resp) ==
    LET src == sourceOf(l)
        r   == CASE src = "weather" ->
                       fetchWeatherByCity(Get(l.summary).city, resp)
                 [] src = "air"     -> fetchAirQualityByCoords(resp)
                 [] src = "alerts"  -> fetchUttarakhandAlerts(resp)
                 [] src = "quakes"  ->
                       fetchUttarakhandEarthquakes(resp, ConcurrentInstant)
    IN  [l EXCEPT !.received[src] = Some(resp),
                  !.outcome = Some(r),
                  !.pc = src \o "_settled"]

\* The request settles with resp: the function throws, or awaits the body.
responded(l, resp) ==
    IF resp.ok THEN [l EXCEPT !.pc = sourceOf(l) \o "_body"]
    ELSE settled(l, resp)

\* The call resumes after the await: the try block goes on or the catch
\* clause runs, on the locals l.
resumed(l) ==
    LET r == Get(l.outcome)
    IN  CASE l.pc = "weather_settled" ->
                LET out == afterWeather(Get(l.summary), r)
                IN  [l EXCEPT !.summary = Some(out.summary),
                              !.weatherData = IF r.ok THEN r.value ELSE None,
                              !.outcome = None,
                              !.pc = Goto(out, "air")]
          [] l.pc = "air_settled" ->
                LET out == afterAir(Get(l.summary), r)
                IN  [l EXCEPT !.summary = Some(out.summary),
                              !.outcome = None,
                              !.pc = Goto(out, "alerts")]
          [] l.pc = "alerts_settled" ->
                LET out == afterAlerts(Get(l.summary), r)
                IN  [l EXCEPT !.summary = Some(out.summary),
                              !.outcome = None,
                              !.pc = Goto(out, "quakes")]
          [] l.pc = "quakes_settled" ->
                LET out == afterQuakes(Get(l.summary), r)
                IN  [l EXCEPT !.summary = Some(out.summary),
                              !.outcome = None,
                              !.pc = Goto(out, "done")]

\* What the function body returns when it runs from its first to its last
\* line for the city c, with the credential key and the responses rcv.
summaryAlone(c, key, f, rcv) ==
    LET s0 == NewSummary(c)
        w  == IF weatherPrecheck(key, f).ok
              THEN fetchWeatherByCity(s0.city, Get(rcv.weather))
              ELSE weatherPrecheck(key, f)
        s1 == afterWeather(s0, w).summary
        a  == IF airPrecheck(key, f).ok
              THEN fetchAirQualityByCoords(Get(rcv.air))
              ELSE airPrecheck(key, f)
        s2 == afterAir(s1, a).summary
        b  == IF alertsPrecheck(f).ok
              THEN fetchUttarakhandAlerts(Get(rcv.alerts))
              ELSE alertsPrecheck(f)
        s3 == afterAlerts(s2, b).summary
        q  == IF quakesPrecheck(f).ok
              THEN fetchUttarakhandEarthquakes(Get(rcv.quakes),
                                               ConcurrentInstant)
              ELSE quakesPrecheck(f)
    IN  afterQuakes(s3, q).summary

\* Only the concurrent calls are in use.
CallsOnly ==
    UNCHANGED <<pc, city, apiKey, summary, weatherData, weatherBody, requests,
                attempted, aqArgs, aqQuery, outcome, thrown, bulletin, quakeFeed,
                now,
                arg, ret, phase, timerId, nextRunAt, timers, sends, clock,
                stopped, lastRun, hasFetch>>

InitCalls ==
    /\ CallIdle
    /\ hasFetch \in BOOLEAN
    /\ apiKey \in ApiKeys
    /\ arg = None
    /\ ret = None
    /\ phase = "calls"

\* Call i is made.
CallStarts(i) ==
    /\ phase = "calls"
    /\ calls[i].pc = "idle"
    /\ \E c \in ConcurrentCities : calls' = [calls EXCEPT ![i] = called(c)]
    /\ CallsOnly

\* Call i enters its next source function.
CallBegins(i) ==
    /\ phase = "calls"
    /\ calls[i].pc \in {"weather", "air", "alerts", "quakes"}
    /\ calls' = [calls EXCEPT ![i] = begun(localsOf(calls, i), apiKey, hasFetch)]
    /\ CallsOnly

\* A request of call i settles.
CallResponds(i) ==
    /\ phase = "calls"
    /\ calls[i].pc \in {"weather_wait", "air_wait", "alerts_wait",
                        "quakes_wait"}
    /\ \E resp \in awaited(calls[i]) :
          calls' = [calls EXCEPT ![i] = responded(localsOf(calls, i), resp)]
    /\ CallsOnly

\* A body of call i arrives.
CallSettles(i) ==
    /\ phase = "calls"
    /\ calls[i].pc \in {"weather_body", "air_body", "alerts_body",
                        "quakes_body"}
    /\ \E resp \in {r \in awaited(calls[i]) : r.ok} :
          calls' = [calls EXCEPT ![i] = settled(localsOf(calls, i), resp)]
    /\ CallsOnly

\* Call i resumes after its await.
CallResumes(i) ==
    /\ phase = "calls"
    /\ calls[i].pc \in {"weather_settled", "air_settled", "alerts_settled",
                        "quakes_settled"}
    /\ calls' = [calls EXCEPT ![i] = resumed(localsOf(calls, i))]
    /\ CallsOnly

NextCalls ==
    \E i \in CallIds :
        \/ CallStarts(i)
        \/ CallBegins(i)
        \/ CallResponds(i)
        \/ CallSettles(i)
        \/ CallResumes(i)

SpecCalls == InitCalls /\ [][NextCalls]_vars

-----------------------------------------------------------------------------
(* Vocabulary of the claims about one call *)

Done == pc = "done"

Sources == <<"weather", "air", "alerts", "quakes">>

Prefix == [weather |-> "Weather: ", air |-> "Air Quality: ",
           alerts |-> "Alerts: ", quakes |-> "Earthquakes: "]

\* The catch clause of the source ran in this call.
Failed(src) == IsSome(thrown[src])

StatusCodes == {404, 500, 503}

StatusMessages ==
    {text \o ToString(code) :
        text \in {"Weather API request failed with status ",
                  "Air quality API request failed with status ",
                  "IMD alert request failed with status ",
                  "Earthquake feed request failed with status "},
        code \in StatusCodes}

\* Every message a source function of the model can throw.
AllMessages ==
    StatusMessages
    \cup JsonSyntaxMessages
    \cup {ConfigMessage, FetchFailedMessage, NoFetchMessage,
          NullReadMessage("weather"), NullReadMessage("list"),
          "Air quality data is missing in API response"}

\* The errors list has an entry with the prefix of this source.
HasEntry(src) ==
    \E i \in 1..Len(Get(summary).errors), m \in AllMessages :
        Get(summary).errors[i] = Prefix[src] \o m

\* The field of the summary that belongs to the source is present.
FieldPresent(src) ==
    IF src = "weather" THEN IsSome(Get(summary).weather)
    ELSE IF src = "air" THEN IsSome(Get(summary).airQuality)
    ELSE IF src = "alerts" THEN IsSome(Get(summary).alerts)
    ELSE Get(summary).earthquakes # <<>>

\* C1: whatever the city and whatever the four sources do, the call ends by
\* returning a summary object with its six fields; no error leaves it, and
\* until it has returned it can always take its next step.
C1_NeverRaises ==
    /\ pc # "rejected"
    /\ pc \notin {"idle", "done"} => IsSome(summary) /\ ENABLED Next
    /\ Done => /\ IsSome(summary)
               /\ DOMAIN Get(summary) = {"city", "weather", "airQuality",
                                          "alerts", "earthquakes", "errors"}

\* A call that returned after a rejected weather request, a malformed
\* air-quality body and a non-success bulletin status.
C1_Witness ==
    /\ Done
    /\ thrown.weather = Some(FetchFailedMessage)
    /\ thrown.air = Some(JsonSyntaxMessage)
    /\ thrown.alerts = Some("IMD alert request failed with status 503")
    /\ ~Failed("quakes")

\* C2: when all four sources fail, the summary has a non-empty city, no
\* weather, no air quality, the substitute bulletin, no earthquakes and
\* exactly four errors.
C2_AllFail ==
    (Done /\ \A i \in 1..4 : Failed(Sources[i])) =>
        /\ Get(summary).city # <<>>
        /\ Get(summary).weather = None
        /\ Get(summary).airQuality = None
        /\ Get(summary).alerts = Some(AlertsUnavailable)
        /\ AlertsUnavailable.summary = <<"Alerts service unavailable.">>
        /\ AlertsUnavailable.notices = <<>>
        /\ Get(summary).earthquakes = <<>>
        /\ Len(Get(summary).errors) = 4

\* All four sources failed although the credential is configured.
C2_Witness ==
    /\ Done
    /\ HasKey(apiKey)
    /\ \A i \in 1..4 : Failed(Sources[i])

\* C3 as stated: at most four errors, and for each of the four sources a
\* present field and an error entry exclude each other.
C3_Original ==
    Done => /\ Len(Get(summary).errors) <= 4
            /\ \A i \in 1..4 :
                  ~(FieldPresent(Sources[i]) /\ HasEntry(Sources[i]))

\* C3 amended: at most four errors; for weather, air quality and earthquakes
\* a present field and an error entry exclude each other; the alerts field
\* is present also beside an "Alerts: " entry, and then it is the substitute
\* bulletin.
C3_Amended ==
    Done => /\ Len(Get(summary).errors) <= 4
            /\ \A src \in {"weather", "air", "quakes"} :
                  ~(FieldPresent(src) /\ HasEntry(src))
            /\ HasEntry("alerts") =>
                  Get(summary).alerts = Some(AlertsUnavailable)

\* The bulletin failed while weather, air quality and the seismic feed gave
\* values.
C3_Witness ==
    /\ Done
    /\ HasEntry("alerts")
    /\ FieldPresent("alerts")
    /\ FieldPresent("weather") /\ FieldPresent("air") /\ FieldPresent("quakes")

\* The entries the claim C4 expects: one per failed source, prefixed, in the
\* order weather, air quality, alerts, earthquakes.
RECURSIVE ExpectedErrors(_)
ExpectedErrors(i) ==
    IF i > 4 THEN <<>>
    ELSE (IF Failed(Sources[i])
          THEN <<Prefix[Sources[i]] \o Get(thrown[Sources[i]])>> ELSE <<>>)
         \o ExpectedErrors(i + 1)

\* C4: the errors list holds exactly one entry for each source that failed
\* and none for a source that succeeded, each with the prefix of its source,
\* in the order weather, air quality, alerts, earthquakes.
C4_ErrorsPerSource ==
    IsSome(summary) => Get(summary).errors = ExpectedErrors(1)

\* Weather and the seismic feed failed, the two sources between them did not.
C4_Witness ==
    /\ Done
    /\ Failed("weather") /\ ~Failed("air") /\ ~Failed("alerts")
    /\ Failed("quakes")
    /\ Len(Get(summary).errors) = 2

\* C5: the alerts field of a returned summary is never absent, and it is
\* the substitute bulletin exactly when the bulletin fetch failed.
C5_AlertsPresent ==
    Done => /\ IsSome(Get(summary).alerts)
            /\ Get(summary).alerts = Some(AlertsUnavailable)
                  <=> Failed("alerts")

\* The bulletin fetch failed and the summary carries the substitute.
C5_Witness ==
    /\ Done
    /\ Failed("alerts")
    /\ Get(summary).alerts = Some(AlertsUnavailable)

\* The weather response carried this coordinate value.
Supplied(field) ==
    /\ ~Failed("weather")
    /\ IsSome(weatherBody)
    /\ IsSome(Get(weatherBody).coord)
    /\ IsSome(Get(Get(weatherBody).coord)[field])

SuppliedValue(field) == Get(Get(Get(weatherBody).coord)[field])

\* C6: every call attempts the air-quality lookup; when weather succeeded
\* and supplied both coordinates the lookup gets them, in the call and in the
\* request; a fallback value is used only for a coordinate that the weather
\* source did not supply.
C6_AirCoordinate ==
    Done =>
        /\ IsSome(aqArgs)
        /\ \E i \in 1..Len(attempted) : attempted[i] = "air"
        /\ (Supplied("lat") /\ Supplied("lon")) =>
              /\ Get(aqArgs) = [latitude |-> SuppliedValue("lat"),
                                longitude |-> SuppliedValue("lon")]
              /\ HasKey(apiKey) =>
                    aqQuery = Some([lat |-> SuppliedValue("lat"),
                                    lon |-> SuppliedValue("lon")])
        /\ Get(aqArgs).latitude = DefaultLat => ~Supplied("lat")
        /\ Get(aqArgs).longitude = DefaultLon => ~Supplied("lon")
        /\ (~Supplied("lat") /\ ~Supplied("lon")) =>
              Get(aqArgs) = [latitude |-> DefaultLat, longitude |-> DefaultLon]

\* Weather reported the coordinate (0, 0) and the air-quality request went
\* out for it.
C6_Witness ==
    /\ Done
    /\ Supplied("lat") /\ SuppliedValue("lat") = 0
    /\ Supplied("lon") /\ SuppliedValue("lon") = 0
    /\ aqQuery = Some([lat |-> 0, lon |-> 0])

\* C7: no endpoint is requested twice in a call, and whatever failed, each
\* of the four sources has been attempted once, in order, when the call
\* returns; on a runtime with fetch the two endpoints that need no
\* credential were then requested, and with a credential the other two.
C7_OnceEach ==
    /\ \A i \in 1..4 : requests[Sources[i]] <= 1
    /\ Done => /\ attempted = Sources
               /\ hasFetch => requests.alerts = 1 /\ requests.quakes = 1
               /\ (hasFetch /\ HasKey(apiKey)) =>
                      requests.weather = 1 /\ requests.air = 1

\* The first three sources failed and the seismic feed was still requested.
C7_Witness ==
    /\ Done
    /\ Failed("weather") /\ Failed("air") /\ Failed("alerts")
    /\ requests.quakes = 1
    /\ requests.weather = 1

\* C8: without a credential the weather and the air-quality function throw
\* the configuration error before any request; the call records it under
\* both prefixes and still attempts the bulletin and the seismic feed (and
\* requests them, on a runtime with fetch).  The message is no status
\* message, and with a credential no source throws it.
C8_MissingCredential ==
    /\ ConfigMessage \notin StatusMessages
    /\ (Done /\ ~HasKey(apiKey)) =>
          /\ thrown.weather = Some(ConfigMessage)
          /\ thrown.air = Some(ConfigMessage)
          /\ requests.weather = 0
          /\ requests.air = 0
          /\ Get(summary).errors[1] = "Weather: " \o ConfigMessage
          /\ Get(summary).errors[2] = "Air Quality: " \o ConfigMessage
          /\ attempted = Sources
          /\ hasFetch => requests.alerts = 1 /\ requests.quakes = 1
    /\ HasKey(apiKey) =>
          \A i \in 1..4 : thrown[Sources[i]] # Some(ConfigMessage)
    /\ (~HasKey(apiKey) /\ pc \in {"weather", "weather_wait", "weather_body",
                                    "weather_settled", "air", "air_wait",
                                    "air_body", "air_settled"})
          => requests = NoRequests

\* A call that returned with the credential set to the empty string.
C8_Witness ==
    /\ Done
    /\ apiKey = Some("")
    /\ Len(Get(summary).errors) = 2

-----------------------------------------------------------------------------
(* Claims about the seismic source *)

\* The list fetchUttarakhandEarthquakes returned.
ReturnedQuakes == Get(ret.value)

\* C9 as stated: the returned list is in descending order of timestamp, and
\* every event in it has a timestamp, within the 24 hours that end at the
\* aggregation instant, and a location that names the region.
C9_Original ==
    phase = "quakes_done" =>
        /\ \A i, j \in 1..Len(ReturnedQuakes) :
              i < j => Get(ReturnedQuakes[i].timestamp)
                         >= Get(ReturnedQuakes[j].timestamp)
        /\ \A i \in 1..Len(ReturnedQuakes) :
              /\ IsSome(ReturnedQuakes[i].timestamp)
              /\ Get(ReturnedQuakes[i].timestamp) >= arg.instant - 24
              /\ Get(ReturnedQuakes[i].timestamp) <= arg.instant
              /\ includesRegion(ReturnedQuakes[i].location)

-----------------------------------------------------------------------------
(* Claims about the category mapping *)

\* The label the claim C10 gives each index.
C10_Label(value) ==
    IF value = Some(NumV(100)) THEN "Good"
    ELSE IF value = Some(NumV(200)) THEN "Fair"
    ELSE IF value = Some(NumV(300)) THEN "Moderate"
    ELSE IF value = Some(NumV(400)) THEN "Poor"
    ELSE IF value = Some(NumV(500)) THEN "Very Poor"
    ELSE "Unavailable"

\* C10: for an absent index and for every number, mapAqiCategory returns a
\* string: the label of 1, 2, 3, 4 or 5, and "Unavailable" for the rest.
C10_CategoryTotal ==
    phase = "aqi_done" => /\ ret.isString
                          /\ ret.text = C10_Label(arg)

\* The mapping has been applied to the index 5.
C10_Witness ==
    /\ phase = "aqi_done"
    /\ arg = Some(NumV(500))
    /\ ret.text = "Very Poor"

-----------------------------------------------------------------------------
(* Claims about the air-quality record *)

\* C11 as stated: in every record fetchAirQualityByCoords returns, the index
\* is absent or one of the ordinals 1, 2, 3, 4, 5, whatever index value the
\* reading carries.
C11_Original ==
    phase = "air_done" =>
        /\ ret.ok
        /\ Get(ret.value).index \in {None} \cup {Some(100 * k) : k \in 1..5}

-----------------------------------------------------------------------------
(* Claims about the weather record *)

\* The measurement the claim C12 selects: the 1-hour one when the rain block
\* carries it, else the 3-hour one when the block carries it, else 0.
C12_Measurement ==
    IF ~IsSome(arg.rain) THEN 0
    ELSE IF IsSome(Get(arg.rain).h1) THEN Get(Get(arg.rain).h1)
    ELSE IF IsSome(Get(arg.rain).h3) THEN Get(Get(arg.rain).h3)
    ELSE 0

\* C12 as stated: the rainfall of the record is never absent and is the
\* selected measurement itself.
C12_Original ==
    phase = "weather_done" =>
        /\ ret.ok
        /\ Get(ret.value).rainfall \in Int
        /\ Get(ret.value).rainfall = C12_Measurement

\* C12 amended: the rainfall of the record is never absent and is the
\* selected measurement rounded to one decimal place: a whole number of
\* tenths at most half a tenth away from the measurement.
C12_Amended ==
    phase = "weather_done" =>
        /\ ret.ok
        /\ Get(ret.value).rainfall \in Int
        /\ Get(ret.value).rainfall % 10 = 0
        /\ 2 * Get(ret.value).rainfall <= 2 * C12_Measurement + 10
        /\ 2 * Get(ret.value).rainfall > 2 * C12_Measurement - 10

\* A response whose rain block carries a 1-hour measurement of 0 and a
\* 3-hour measurement of 12 mm was converted.
C12_Witness ==
    /\ phase = "weather_done"
    /\ arg.rain = Rain(Some(0), Some(1200))
    /\ Get(ret.value).rainfall = 0

\* C13 as stated: a temperature of 21.6 becomes 21 and a humidity of 54.2
\* becomes 54.
C13_Original ==
    (phase = "weather_done" /\ arg.main = Main(Some(2160), Some(5420))) =>
        /\ Get(ret.value).temperature = Some(2100)
        /\ Get(ret.value).humidity = Some(5400)

\* C13 amended: a temperature of 21.6 becomes 22, the nearest integer, and a
\* humidity of 54.2 becomes 54.
C13_Amended ==
    (phase = "weather_done" /\ arg.main = Main(Some(2160), Some(5420))) =>
        /\ Get(ret.value).temperature = Some(2200)
        /\ Get(ret.value).humidity = Some(5400)

\* The response with 21.6 degrees and 54.2 per cent was converted.
C13_Witness ==
    /\ phase = "weather_done"
    /\ arg.main = Main(Some(2160), Some(5420))
    /\ ret.ok
    /\ IsSome(Get(ret.value).temperature)

-----------------------------------------------------------------------------
(* The end-to-end scenario *)

\* The call received the responses of the scenario: a weather record, a
\* rejected air-quality request, the bulletin with one row of the region
\* and the notices "N/A" and "Heavy rain", and the feed with an event 3 hours
\* and an event 30 hours before the aggregation instant.
C14_Scenario ==
    /\ Done
    /\ ~Failed("weather") /\ IsSome(weatherData)
    /\ thrown.air = Some(FetchFailedMessage)
    /\ bulletin = Some(ScenarioBulletin)
    /\ quakeFeed = Some(ScenarioFeed)
    /\ now = 14 * 24 + 9

\* C14: in the scenario the summary has the weather record, no air quality,
\* exactly one error, which is the air-quality one, a bulletin whose summary
\* line and only notice are "Heavy rain", and an earthquake list with only
\* the event of 15 March 06:00.
C14_EndToEnd ==
    C14_Scenario =>
        /\ Get(summary).weather = weatherData
        /\ Get(summary).airQuality = None
        /\ Get(summary).errors = <<"Air Quality: " \o FetchFailedMessage>>
        /\ Get(summary).alerts =
              Some([summary |-> <<"Heavy", " ", "rain">>,
                    notices |-> << <<"Heavy", " ", "rain">> >>])
        /\ Len(Get(summary).earthquakes) = 1
        /\ Get(summary).earthquakes[1].timestamp = Some(14 * 24 + 6)
        /\ Get(summary).earthquakes[1].magnitude = Some(450)

\* The scenario has run to its end and the summary lists one earthquake.
C14_Witness ==
    /\ C14_Scenario
    /\ IsSome(Get(summary).weather)
    /\ Len(Get(summary).earthquakes) = 1

-----------------------------------------------------------------------------
(* Claims about the bulletin *)

\* The texts that contain the name of the region in some letter case.
RegionTexts == {"uttarakhand", "Uttarakhand", "UTTARAKHAND"}

\* Some cell of the row, as it stands in the document, names the region.
NamesRegion(row) ==
    \E c \in 1..Len(row) : \E i \in 1..Len(row[c]) : row[c][i] \in RegionTexts

\* The document has a row that names the region.
HasRegionRow(doc) == \E r \in 1..Len(doc) : NamesRegion(doc[r])

\* The first such row, in document order.
FirstRegionRow(doc) ==
    doc[CHOOSE r \in 1..Len(doc) :
            /\ NamesRegion(doc[r])
            /\ \A q \in 1..(r - 1) : ~NamesRegion(doc[q])]

\* C15: the bulletin returned is the one of the first row, in document
\* order, of which some cell names the region in any letter case; the rows
\* before it, which do not name the region, add nothing to it.
C15_FirstRegionRow ==
    (phase = "alerts_done" /\ HasRegionRow(arg.doc)) =>
        /\ ret.ok
        /\ Get(ret.value) = alertsFromHtml(<<FirstRegionRow(arg.doc)>>)

\* A row of another subdivision, then the row with "UTTARAKHAND": the
\* bulletin is the one of the second row.
C15_Witness ==
    /\ phase = "alerts_done"
    /\ Len(arg.doc) = 2
    /\ ~NamesRegion(arg.doc[1])
    /\ Len(arg.doc[2]) = 3
    /\ \E i \in 1..Len(arg.doc[2][1]) : arg.doc[2][1][i] = "UTTARAKHAND"
    /\ Get(ret.value).notices = << <<"Heavy", " ", "rain">> >>

\* C16: a bulletin that was fetched and has no row of the region gives the
\* no-warnings bulletin as the result of the source, and the call records no
\* "Alerts: " entry.
C16_NoRegionRow ==
    (Done /\ IsSome(bulletin) /\ ~HasRegionRow(Get(bulletin))) =>
        /\ ~Failed("alerts")
        /\ Get(summary).alerts = Some(NoWarnings)
        /\ NoWarnings.summary = <<"No major warnings today.">>
        /\ NoWarnings.notices = <<>>
        /\ ~HasEntry("alerts")

\* The bulletin with only a row of Delhi was fetched.
C16_Witness ==
    /\ Done
    /\ IsSome(bulletin)
    /\ Len(Get(bulletin)) = 1
    /\ ~HasRegionRow(Get(bulletin))
    /\ Get(summary).alerts = Some(NoWarnings)

\* C17 as stated: no text occurs twice in the notices of a returned
\* bulletin.
C17_Original ==
    phase = "alerts_done" =>
        \A i, j \in 1..Len(Get(ret.value).notices) :
            i # j => Get(ret.value).notices[i] # Get(ret.value).notices[j]

\* The texts in which the pattern  n/a | nil | no warning  matches in some
\* letter case.
PatternTexts == {"n/a", "N/A", "nil", "Nil", "NIL", "no warning", "No warning",
                 "Manila"}

\* A candidate cell that becomes a notice: not empty and without a match of
\* the pattern.
IsNotice(cell) ==
    /\ cell # <<>>
    /\ \A i \in 1..Len(cell) : cell[i] \notin PatternTexts

\* The cells of a row after whitespace collapsing.
CellTexts(row) == [c \in 1..Len(row) |-> cellText(row[c])]

\* C19: when a row names the region, the notices are the cells after its
\* first cell that are notices, in row order, and the summary line is the
\* first of them, or the no-warnings text when there is none.
C19_Notices ==
    (phase = "alerts_done" /\ HasRegionRow(arg.doc)) =>
        LET expected ==
                SelectSeq(Tail(CellTexts(FirstRegionRow(arg.doc))), IsNotice)
        IN  /\ Get(ret.value).notices = expected
            /\ Get(ret.value).summary =
                  IF expected # <<>> THEN expected[1]
                  ELSE <<"No major warnings today.">>

\* A row of the region whose four candidate cells are all discarded.
C19_Witness ==
    /\ phase = "alerts_done"
    /\ Len(arg.doc) = 1
    /\ Len(arg.doc[1]) = 5
    /\ Get(ret.value).notices = <<>>
    /\ Get(ret.value).summary = <<"No major warnings today.">>

-----------------------------------------------------------------------------
(* Claims about the city of the summary *)

\* The location input is absent, empty or nothing but spaces.
IsBlankInput(c) == ~IsSome(c) \/ \A i \in 1..Len(Get(c)) : Get(c)[i] = " "

\* A text that is not blank, in title case: what stands between its first
\* and its last letter, every run of spaces as one space, the first letter
\* of every word in upper case and its other letters in lower case.
TitleCased(text) ==
    LET first == CHOOSE i \in 1..Len(text) :
                     text[i] # " " /\ \A j \in 1..(i - 1) : text[j] = " "
        last  == CHOOSE i \in 1..Len(text) :
                     text[i] # " " /\ \A j \in (i + 1)..Len(text) : text[j] = " "
        t     == SubSeq(text, first, last)
        Kept(i) == t[i] # " " \/ t[i - 1] # " "
        kept  == SelectSeq([i \in 1..Len(t) |-> i], Kept)
        Letter(i) == IF t[i] = " " THEN " "
                     ELSE IF i = 1 \/ t[i - 1] = " " THEN UpperOf(t[i])
                     ELSE LowerOf(t[i])
    IN  [k \in 1..Len(kept) |-> Letter(kept[k])]

\* C18: the city of a returned summary is not empty: it is "Dehradun" for an
\* absent, empty or blank location input and the trimmed input in title case
\* for any other, whatever the weather source did.
C18_City ==
    Done =>
        /\ Get(summary).city # <<>>
        /\ Get(summary).city =
              IF IsBlankInput(city)
              THEN <<"D", "e", "h", "r", "a", "d", "u", "n">>
              ELSE TitleCased(Get(city))

\* The call for " deHRA  dUN " returned "Dehra Dun" although the weather
\* source failed.
C18_Witness ==
    /\ Done
    /\ city = Some(TwoWordCity)
    /\ Failed("weather")
    /\ Get(summary).city = <<"D", "e", "h", "r", "a", " ", "D", "u", "n">>

-----------------------------------------------------------------------------
(* Claims about the magnitude *)

\* The numeric value of a cell, when it has one: the cell holds one numeral.
HasNumber(cell) ==
    /\ Len(cellText(cell)) = 1
    /\ \E i \in 1..Len(NumericChunks) : NumericChunks[i][1] = cellText(cell)[1]

NumberIn(cell) ==
    NumericChunks[CHOOSE i \in 1..Len(NumericChunks) :
                      NumericChunks[i][1] = cellText(cell)[1]][2]

\* A value in hundredths at one decimal place.
OneDecimal(n) == ((n + 5) \div 10) * 10

\* The magnitude the claim C20 gives a row: from the fifth cell when that
\* has a numeric value, else from the fourth when that has one, else absent.
C20_Magnitude(row) ==
    IF HasNumber(row[5]) THEN Some(OneDecimal(NumberIn(row[5])))
    ELSE IF HasNumber(row[4]) THEN Some(OneDecimal(NumberIn(row[4])))
    ELSE None

\* The row is kept: six cells or more, the region in its last cell, a
\* timestamp not more than 24 hours before the aggregation instant.
IsKeptRow(row) ==
    /\ Len(row) >= 6
    /\ NamesRegion(<<row[Len(row)]>>)
    /\ IsSome(parseEarthquakeDate(row[1], row[2]))
    /\ Get(parseEarthquakeDate(row[1], row[2])) >= arg.instant - 24

\* C20 as stated: every kept row is returned with the magnitude of its
\* fifth cell when that cell has a numeric value, 0 included, with that of
\* its fourth cell when only that one has a numeric value, and without a
\* magnitude when neither has.
C20_Original ==
    phase = "quakes_done" =>
        \A r \in 1..Len(arg.feed) :
            IsKeptRow(arg.feed[r]) =>
                \E k \in 1..Len(ReturnedQuakes) :
                    /\ ReturnedQuakes[k].timestamp =
                          parseEarthquakeDate(arg.feed[r][1], arg.feed[r][2])
                    /\ ReturnedQuakes[k].magnitude = C20_Magnitude(arg.feed[r])

-----------------------------------------------------------------------------
(* Claims about the window of the seismic filter and the coordinate pair *)

\* C28 as stated: no event dated after the aggregation instant is retained;
\* every retained timestamp lies between 24 hours before that instant and
\* the instant itself.
C28_Original ==
    phase = "quakes_done" =>
        \A k \in 1..Len(ReturnedQuakes) :
            /\ arg.instant - 24 <= Get(ReturnedQuakes[k].timestamp)
            /\ Get(ReturnedQuakes[k].timestamp) <= arg.instant

\* C29 as stated: the coordinate of the air-quality request is a whole pair
\* from one origin: the latitude and longitude of the weather response, or
\* the two values of the fallback coordinate.
C29_Original ==
    (Done /\ IsSome(aqQuery)) =>
        \/ Get(aqQuery) = [lat |-> DefaultLat, lon |-> DefaultLon]
        \/ /\ Supplied("lat") /\ Supplied("lon")
           /\ Get(aqQuery) = [lat |-> SuppliedValue("lat"),
                              lon |-> SuppliedValue("lon")]

-----------------------------------------------------------------------------
(* Claims about the order of the requests within one call *)

\* The call waits for the source: for its response, for the body of the
\* response, or to resume after the source function has settled.
Pending(src) == pc \in {src \o "_wait", src \o "_body", src \o "_settled"}

\* C21 as stated: the bulletin and the seismic request can be issued while
\* the air-quality request is pending, and the seismic request while the
\* bulletin request is pending.
C21_Original ==
    /\ Pending("air") => ENABLED BeginAlerts /\ ENABLED BeginQuakes
    /\ Pending("alerts") => ENABLED BeginQuakes

\* C21 amended: the three requests are issued one after the other.  While
\* the air-quality request is pending neither the bulletin nor the seismic
\* request has been or can be issued; while the bulletin request is pending
\* the seismic request has not been and cannot be issued; a request that has
\* been issued follows the attempts of all sources before it.
C21_Amended ==
    /\ Pending("air") =>
          /\ requests.alerts = 0 /\ requests.quakes = 0
          /\ ~ENABLED BeginAlerts /\ ~ENABLED BeginQuakes
    /\ Pending("alerts") =>
          /\ requests.quakes = 0
          /\ ~ENABLED BeginQuakes
    /\ requests.alerts = 1 =>
          /\ Len(attempted) >= 3
          /\ SubSeq(attempted, 1, 3) = <<"weather", "air", "alerts">>
    /\ requests.quakes = 1 => attempted = Sources

\* The air-quality request is pending and no other source has been called.
C21_Witness ==
    /\ pc = "air_wait"
    /\ requests.air = 1
    /\ attempted = <<"weather", "air">>

\* C22 as stated: in a call whose weather request never settles the
\* air-quality request is eventually issued, for the fallback coordinate.
C22_Original ==
    <>[](pc = "weather_wait") =>
        <>(requests.air = 1
           /\ aqQuery = Some([lat |-> DefaultLat, lon |-> DefaultLon]))

\* C23: when every issued request settles, a call that has been made
\* returns its summary, having attempted weather, air quality, bulletin and
\* seismic feed in that order.
C23_Returns ==
    (pc = "weather") ~> (Done /\ IsSome(summary) /\ attempted = Sources)

\* A call returned after one request to each endpoint.
C23_Witness ==
    /\ Done
    /\ attempted = Sources
    /\ \A i \in 1..4 : requests[Sources[i]] = 1

-----------------------------------------------------------------------------
(* Claims about the request handler *)

\* C30 as stated: every request, with or without a city and whatever the
\* profile lookup and the four sources did, is answered with ok: true and a
\* complete summary.
C30_Original ==
    phase = "ipc_done" =>
        /\ ret.ok
        /\ IsSome(ret.data)
        /\ DOMAIN Get(ret.data) = {"city", "weather", "airQuality", "alerts",
                                   "earthquakes", "errors"}

\* C26: in every interleaving of start calls, timer firings and send
\* completions, at most one digest timer is pending.
C26_Original == Cardinality(timers) <= 1

\* C25: after stopDailyDigestScheduler, and until the next start call, no
\* timer is pending (so no run can start) and getNextScheduledDigest() is
\* null, also when a send was in flight at the stop.
C25_Original == stopped => timers = {} /\ getNextScheduledDigest = None

\* C27: while the scheduler is started and not stopped, the step in which a
\* digest send settles, fulfilled or rejected, sets exactly one new timeout,
\* whose target is strictly later than the clock, and records it in timerId
\* and nextRunAt.
C27_Reschedules ==
    [][ (~stopped /\ Len(sends') < Len(sends)) =>
            \E t \in timers' \ timers :
                /\ timers' = timers \cup {t}
                /\ t.at > clock'
                /\ timerId' = Some(t.id)
                /\ nextRunAt' = Some(t.at) ]_vars

\* A send has failed and the next run is pending, at a later instant.
C27_Witness ==
    /\ lastRun = "failed"
    /\ ~stopped
    /\ sends = <<>>
    /\ \E t \in timers : timerId = Some(t.id) /\ t.at > clock

\* C24: in every interleaving of two concurrent calls, the summary each call
\* returns is the one the function computes from that call's own city and
\* that call's own responses.
C24_Independent ==
    \A i \in CallIds :
        calls[i].pc = "done" =>
            calls[i].summary =
                Some(summaryAlone(calls[i].city, apiKey, hasFetch,
                                  calls[i].received))

\* Both calls have returned, after different cities and after responses that
\* differ for every endpoint, and their summaries differ.
C24_Witness ==
    /\ calls[1].pc = "done"
    /\ calls[2].pc = "done"
    /\ calls[1].city # calls[2].city
    /\ \A src \in {"weather", "air", "alerts", "quakes"} :
          /\ IsSome(calls[1].received[src])
          /\ IsSome(calls[2].received[src])
          /\ calls[1].received[src] # calls[2].received[src]
    /\ calls[1].summary # calls[2].summary

====
